---- MODULE Spec2Model ----
(***************************************************************************)
(* RequestManager (enegalan/request-manager): the table of active requests *)
(* keyed by request identifier, supersession of a request by a newer one   *)
(* with the same identifier, cancel / cancelAll / clear, and the           *)
(* continuations that forward an underlying call's outcome to the wrapper  *)
(* promise handed to the caller.                                           *)
(*                                                                         *)
(* JavaScript is single threaded: every public method runs to completion,  *)
(* and promise continuations and timers run in later turns.  One action    *)
(* is one such turn.  Callbacks supplied by the caller (cancel functions,  *)
(* abort listeners) are taken not to call back into the manager.           *)
(*                                                                         *)
(* Objects live in heaps: requestInfos maps an object identity to a        *)
(* requestInfo object, controllers maps one to an AbortController.  Object *)
(* identity (===) is equality of the identities.  A requestInfo that is    *)
(* neither in the table nor awaited by a continuation or a timer can no    *)
(* longer be reached by the program and leaves the heap when the turn      *)
(* ends.  What a method or a continuation does is an operator from the     *)
(* state M it starts in to the state it leaves, before that collection.    *)
(***************************************************************************)
EXTENDS Integers, Sequences, FiniteSets, TLC

\* Number of requestInfo objects that exist at the same time.
MaxRequests == 2

(***************************************************************************)
(* JavaScript values that reach the identifier generator.                  *)
(* A string is a sequence of characters (one-character TLA+ strings).      *)
(***************************************************************************)
Undefined == [type |-> "undefined"]
Null == [type |-> "null"]
Str(s) == [type |-> "string", val |-> s]
Num(n) == [type |-> "number", val |-> n]
\* A function of no arguments that returns the value r.
Fn(r) == [type |-> "function", throws |-> FALSE, returns |-> r]
\* A function of no arguments that throws.
FnThrows == [type |-> "function", throws |-> TRUE, returns |-> [type |-> "undefined"]]

IsNullish(v) == v.type \in {"undefined", "null"}

\* Decimal digits of a natural number, as String(n) renders them.
Digit(d) == CASE d = 0 -> "0" [] d = 1 -> "1" [] d = 2 -> "2" [] d = 3 -> "3"
              [] d = 4 -> "4" [] d = 5 -> "5" [] d = 6 -> "6" [] d = 7 -> "7"
              [] d = 8 -> "8" [] d = 9 -> "9"

RECURSIVE NatToString(_)
NatToString(n) == IF n < 10 THEN <<Digit(n)>>
                  ELSE NatToString(n \div 10) \o <<Digit(n % 10)>>

\* String(value) for the values a requestKey can be.
String(v) == CASE v.type = "string" -> v.val
               [] v.type = "number" -> NatToString(v.val)
               [] v.type = "undefined" -> <<"u","n","d","e","f","i","n","e","d">>
               [] v.type = "null" -> <<"n","u","l","l">>
               [] OTHER -> <<"f","n">>

\* String.prototype.includes
Includes(s, sep) ==
    \E i \in 1..(Len(s) - Len(sep) + 1) : SubSeq(s, i, i + Len(sep) - 1) = sep

\* String.prototype.indexOf, 1-based; only used when Includes(s, sep).
IndexOf(s, sep) ==
    CHOOSE i \in 1..(Len(s) - Len(sep) + 1) :
        /\ SubSeq(s, i, i + Len(sep) - 1) = sep
        /\ \A j \in 1..(i - 1) : SubSeq(s, j, j + Len(sep) - 1) # sep

\* String.prototype.split with a non-empty string separator.
RECURSIVE Split(_, _)
Split(s, sep) ==
    IF ~Includes(s, sep) THEN <<s>>
    ELSE LET i == IndexOf(s, sep)
         IN <<SubSeq(s, 1, i - 1)>> \o Split(SubSeq(s, i + Len(sep), Len(s)), sep)

Prefix == <<"request_">>

\* Use cleaned URL as key when requestKey is null/undefined.
CleanUrl(url) ==
    LET cleanedUrl0 == IF url.type = "string" /\ url.val # <<>> THEN url.val ELSE <<>>
        cleanedUrl1 == IF Includes(cleanedUrl0, <<":", "/", "/">>)
                       THEN Split(cleanedUrl0, <<":", "/", "/">>)[2] ELSE cleanedUrl0
        cleanedUrl2 == IF Includes(cleanedUrl1, <<"?">>)
                       THEN Split(cleanedUrl1, <<"?">>)[1] ELSE cleanedUrl1
        cleanedUrl3 == IF Includes(cleanedUrl2, <<"#">>)
                       THEN Split(cleanedUrl2, <<"#">>)[1] ELSE cleanedUrl2
    IN cleanedUrl3

\* A generator that takes the cleaned URL whatever the requestKey is.
GenerateRequestIdNoKey(url, requestKey, noCancel, now, rnd) ==
    IF noCancel THEN Prefix \o NatToString(now) \o <<"_">> \o rnd
    ELSE Prefix \o CleanUrl(url)

\* A generator that takes what the requestKey function gives, null and undefined included.
GenerateRequestIdNoFallback(url, requestKey, noCancel, now, rnd) ==
    IF noCancel THEN Prefix \o NatToString(now) \o <<"_">> \o rnd
    ELSE LET key == IF ~IsNullish(requestKey) /\ requestKey.type = "function"
                    THEN (IF requestKey.throws THEN Null ELSE requestKey.returns)
                    ELSE requestKey
         IN IF ~IsNullish(requestKey)
            THEN Prefix \o String(key)
            ELSE Prefix \o CleanUrl(url)

(***************************************************************************)
(* #_generateRequestId(url, requestKey, noCancel).  now is what Date.now() *)
(* returns and rnd what Math.random().toString(36).slice(2, 11) returns in *)
(* this call.                                                              *)
(***************************************************************************)
GenerateRequestId(url, requestKey, noCancel, now, rnd) ==
    IF noCancel THEN Prefix \o NatToString(now) \o <<"_">> \o rnd
    ELSE LET key == IF ~IsNullish(requestKey) /\ requestKey.type = "function"
                    THEN (IF requestKey.throws THEN Null ELSE requestKey.returns)
                    ELSE requestKey
         IN IF ~IsNullish(requestKey) /\ ~IsNullish(key)
            THEN Prefix \o String(key)
            ELSE Prefix \o CleanUrl(url)

(***************************************************************************)
(* Inputs of the behaviours explored: the calls the caller makes.  Each is *)
(* a method with its url, requestPromise and options.  abortController is  *)
(* "none" (absent), "new" (an AbortController the caller made for the call), *)
(* "manager" (the one getAbortController() returns as the call is made)    *)
(* or "throwing" (one of a subclass whose abort() aborts the signal and    *)
(* then throws).  cancelToken is "null", a "function", an "object" with a  *)
(* cancel method, or "throwing" (a function that throws).  requestPromise  *)
(* is a "promise" or a "value" without then.                               *)
(***************************************************************************)
Submission(op, url, requestPromise, requestKey, noCancel, ac, token) ==
    [op |-> op, url |-> url, requestPromise |-> requestPromise,
     options |-> [requestKey |-> requestKey, noCancel |-> noCancel,
                  abortController |-> ac, cancelToken |-> token]]

Submissions ==
    { Submission("request", Str(<<"a", "?", "q">>), "promise", Undefined, FALSE, "none", "function"),
      Submission("request", Str(<<"a">>), "value", Str(<<"b">>), FALSE, "new", "object"),
      Submission("fetch", Str(<<"b", "#", "h">>), "string", Undefined, FALSE, "throwing", "throwing"),
      Submission("fetch", Str(<<"a">>), "string", Str(<<"b">>), TRUE, "none", "null") }

\* Values of Date.now() and of Math.random().toString(36).slice(2, 11).
Times == { 7 }
Rands == { <<"x">>, <<"y">> }

VARIABLES
    activeRequests,   \* this.activeRequests: request identifier -> requestInfo
    requestInfos,     \* heap of requestInfo objects
    controllers,      \* heap of AbortControllers: signal.aborted of each
    abortController,  \* this.abortController: a controller, or 0 for null
    verbose,          \* this.verbose
    obtained,         \* the controller the caller got from its last call of
                      \* getAbortController() or getSignal() and keeps; 0 for none
    listeners         \* controller -> the listeners addAbortListener gave the
                      \* abort event of its signal, in the order they were added

vars == <<activeRequests, requestInfos, controllers, abortController, verbose, obtained,
          listeners>>

\* The manager and the heaps as one value, to compose the methods.
State == [activeRequests |-> activeRequests, requestInfos |-> requestInfos,
          controllers |-> controllers, abortController |-> abortController,
          verbose |-> verbose, obtained |-> obtained, listeners |-> listeners]

EmptyMap == [x \in {} |-> 0]
MapDelete(f, k) == [x \in DOMAIN f \ {k} |-> f[x]]
MapSet(f, k, v) == [x \in DOMAIN f \cup {k} |-> IF x = k THEN v ELSE f[x]]
MapKeep(f, keys) == [x \in DOMAIN f \cap keys |-> f[x]]

\* Outcomes of the underlying call of requestInfo e, and the errors of the manager.
Result(e) == <<"result", e>>
Failure(e) == <<"error", e>>
RawValue(e) == <<"value", e>>
CancelError(message) == <<"Error", message>>

\* this.activeRequests.get(requestId) === requestInfo
IsCurrent(M, e) ==
    LET requestId == M.requestInfos[e].requestId
    IN requestId \in DOMAIN M.activeRequests /\ M.activeRequests[requestId] = e

\* The continuation (or timer) of requestInfo e has not run yet.
Awaited(M, e) == M.requestInfos[e].promise \in {"pending", "value"}

\* The controllers of M some requestInfo, the manager or the caller holds.
HeldControllers(M) ==
    {M.requestInfos[e].abortController : e \in DOMAIN M.requestInfos}
        \cup {M.abortController, M.obtained}

(***************************************************************************)
(* Garbage collection.  A requestInfo stays while the table holds it or a  *)
(* continuation or timer still awaits its underlying call; a controller    *)
(* stays while a requestInfo, the manager or the caller holds it, and its  *)
(* listeners with it.                                                      *)
(***************************************************************************)
Collect(M) ==
    LET keep == {e \in DOMAIN M.requestInfos : IsCurrent(M, e) \/ Awaited(M, e)}
        M1 == [M EXCEPT !.requestInfos = MapKeep(@, keep)]
    IN [M1 EXCEPT !.controllers = MapKeep(@, HeldControllers(M1)),
                  !.listeners = MapKeep(@, HeldControllers(M1))]

\* A turn takes the manager and the heaps to M.
Becomes(M) ==
    \E R \in {Collect(M)} :
        /\ activeRequests' = R.activeRequests
        /\ requestInfos' = R.requestInfos
        /\ controllers' = R.controllers
        /\ abortController' = R.abortController
        /\ verbose' = R.verbose
        /\ obtained' = R.obtained
        /\ listeners' = R.listeners

\* The identity of the next object of a heap.
NewIdentity(heap) == CHOOSE n \in 1..(Cardinality(DOMAIN heap) + 1) : n \notin DOMAIN heap

(***************************************************************************)
(* The wrapper promise of requestInfo e.  resolveWrapper and rejectWrapper *)
(* are the resolve and reject of one promise: the first call settles it,   *)
(* later calls leave it as it is.  settleCalls counts the calls.           *)
(***************************************************************************)
Settle(M, e, how, value) ==
    LET info == M.requestInfos[e]
        settled == [info EXCEPT
                      !.settleCalls = @ + 1,
                      !.wrapperPromise =
                          IF @.state = "pending"
                          THEN [state |-> how, value |-> value] ELSE @]
    IN [M EXCEPT !.requestInfos[e] = settled]

resolveWrapper(M, e, result) == Settle(M, e, "fulfilled", result)
rejectWrapper(M, e, error) == Settle(M, e, "rejected", error)

\* The identity of the next AbortController.  Identities are arbitrary; the one
\* of the requestInfo about to be created is taken when no controller has it.
NewControllerIdentity(M) ==
    LET e == NewIdentity(M.requestInfos)
    IN IF e \notin DOMAIN M.controllers THEN e ELSE NewIdentity(M.controllers)

\* new AbortController(): a controller whose signal is not aborted.
NewController(M) ==
    [M EXCEPT !.controllers = MapSet(@, NewControllerIdentity(M), FALSE)]

\* #_clearAbortController(): the controller the manager held is out of reach
\* from here on, unless a requestInfo holds it too.
clearAbortController(M) ==
    LET M1 == [M EXCEPT !.abortController = 0]
        dropped == {M.abortController} \ HeldControllers(M1)
    IN [M1 EXCEPT !.controllers = MapKeep(@, DOMAIN @ \ dropped),
                  !.listeners = MapKeep(@, DOMAIN @ \ dropped)]

\* getAbortController(): M after the call, and the controller returned.
getAbortController(M) ==
    IF M.abortController = 0 \/ M.controllers[M.abortController]
    THEN LET c == NewControllerIdentity(M)
         IN [M |-> [NewController(M) EXCEPT !.abortController = c], ret |-> c]
    ELSE [M |-> M, ret |-> M.abortController]

\* The message of the error cancel() rejects the wrapper promise with.
CancelMessage(requestId) == <<"Request ">> \o requestId \o <<" was cancelled">>

\* try { ... } catch (error) {}: whether the statement raises an error, thrown
\* telling whether one was thrown inside the try.
TryCatch(thrown) == FALSE

\* The values of abortMethod that are functions: "function", "throwing" for
\* one that throws, and "resubmit" for one that calls request() under the
\* identifier of the request whose signal it listens to; "value" is an
\* abortMethod that is no function.
Functions == {"function", "throwing", "resubmit"}

\* A listener addAbortListener made, calls counting the calls of its abortMethod.
AbortListener(abortMethod) == [abortMethod |-> abortMethod, calls |-> 0]

\* The listeners of the signal of controller c.
ListenersOf(M, c) == IF c \in DOMAIN M.listeners THEN M.listeners[c] ELSE <<>>

\* The listener l runs: abortMethod(), if it is a function.
Listen(l) == IF l.abortMethod \in Functions THEN [l EXCEPT !.calls = @ + 1] ELSE l

\* The run of listener l raises an error.
ListenRaises(l) == TryCatch(l.abortMethod = "throwing")

\* The abort event of the signal of controller c: its listeners run, in order.
Dispatch(M, c) ==
    IF c \in DOMAIN M.listeners
    THEN [M EXCEPT !.listeners[c] = [i \in DOMAIN @ |-> Listen(@[i])]]
    ELSE M

\* A listener of the abort event of controller c raises an error.
DispatchRaises(M, c) ==
    \E i \in DOMAIN ListenersOf(M, c) : ListenRaises(ListenersOf(M, c)[i])

\* An addAbortListener that calls abortMethod at once.
addAbortListenerEager(M, abortMethod, signal) ==
    IF signal = 0 THEN [M |-> M, raised |-> FALSE]
    ELSE [M |-> [M EXCEPT !.listeners =
                    MapSet(@, signal, Append(ListenersOf(M, signal),
                                             Listen(AbortListener(abortMethod))))],
          raised |-> FALSE]

\* addAbortListener(abortMethod, signal), signal being the controller whose
\* signal it is, or 0 for none: M after the call, and whether it raised an error.
addAbortListener(M, abortMethod, signal) ==
    IF signal = 0 THEN [M |-> M, raised |-> FALSE]
    ELSE [M |-> [M EXCEPT !.listeners =
                    MapSet(@, signal, Append(ListenersOf(M, signal),
                                             AbortListener(abortMethod)))],
          raised |-> FALSE]

\* abort() of controller c, whose signal is not aborted: the signal is aborted
\* and its abort event dispatched.
controllerAbort(M, c) == Dispatch([M EXCEPT !.controllers[c] = TRUE], c)

\* requestInfo.abortController.abort(), unless the signal is aborted already.
AbortOf(M, e) ==
    LET c == M.requestInfos[e].abortController
    IN IF c # 0 /\ ~M.controllers[c] THEN controllerAbort(M, c) ELSE M

\* The cancel tokens cancel() invokes: functions, and objects with a cancel method.
Invocable == {"function", "object", "throwing"}

\* The caller's controllers whose abort() throws take the identities from
\* -ThrowingFrom down, the caller's other controllers those above it.
ThrowingFrom == 100

\* requestInfo.abortController.abort(...) is called and throws.
AbortRaises(M, e) ==
    LET c == M.requestInfos[e].abortController
    IN c # 0 /\ ~M.controllers[c] /\ c <= -ThrowingFrom

\* The invocation of requestInfo.cancelToken throws.
CancelTokenRaises(M, e) == M.requestInfos[e].cancelToken = "throwing"

\* requestInfo.cancelToken() or requestInfo.cancelToken.cancel()
CancelTokenOf(M, e) ==
    IF M.requestInfos[e].cancelToken \in Invocable
    THEN [M EXCEPT !.requestInfos[e].cancelTokenCalls = @ + 1] ELSE M

\* A cancel() that neither aborts the controller nor calls the cancel token.
cancelNoAbort(M, requestId) ==
    IF requestId \notin DOMAIN M.activeRequests THEN [M |-> M, ret |-> FALSE, raised |-> FALSE]
    ELSE
    LET e == M.activeRequests[requestId]
        M1 == [M EXCEPT !.requestInfos[e].isCancelled = TRUE]
        M4 == IF M1.verbose
              THEN rejectWrapper(M1, e, CancelError(CancelMessage(requestId))) ELSE M1
    IN [M |-> [M4 EXCEPT !.activeRequests = MapDelete(@, requestId)], ret |-> TRUE,
        raised |-> FALSE]

\* A cancel() that does not mark the entry cancelled.
cancelNoMark(M, requestId) ==
    IF requestId \notin DOMAIN M.activeRequests THEN [M |-> M, ret |-> FALSE, raised |-> FALSE]
    ELSE
    LET e == M.activeRequests[requestId]
        M3 == CancelTokenOf(AbortOf(M, e), e)
        M4 == IF M3.verbose
              THEN rejectWrapper(M3, e, CancelError(CancelMessage(requestId))) ELSE M3
    IN [M |-> [M4 EXCEPT !.activeRequests = MapDelete(@, requestId)], ret |-> TRUE,
        raised |-> FALSE]

\* A cancel() that leaves the entry in the table.
cancelNoDelete(M, requestId) ==
    IF requestId \notin DOMAIN M.activeRequests THEN [M |-> M, ret |-> FALSE, raised |-> FALSE]
    ELSE
    LET e == M.activeRequests[requestId]
        M1 == [M EXCEPT !.requestInfos[e].isCancelled = TRUE]
        M3 == CancelTokenOf(AbortOf(M1, e), e)
        M4 == IF M3.verbose
              THEN rejectWrapper(M3, e, CancelError(CancelMessage(requestId))) ELSE M3
    IN [M |-> M4, ret |-> TRUE, raised |-> FALSE]

\* A cancel() without try and catch: what abort() or the cancel token throws
\* ends the call.
cancelUncaught(M, requestId) ==
    IF requestId \notin DOMAIN M.activeRequests THEN [M |-> M, ret |-> FALSE, raised |-> FALSE]
    ELSE
    LET e == M.activeRequests[requestId]
        M1 == [M EXCEPT !.requestInfos[e].isCancelled = TRUE]
        M2 == AbortOf(M1, e)
        M3 == CancelTokenOf(M2, e)
        M4 == IF M3.verbose
              THEN rejectWrapper(M3, e, CancelError(CancelMessage(requestId))) ELSE M3
    IN IF AbortRaises(M1, e) THEN [M |-> M2, ret |-> FALSE, raised |-> TRUE]
       ELSE IF CancelTokenRaises(M2, e) THEN [M |-> M3, ret |-> FALSE, raised |-> TRUE]
       ELSE [M |-> [M4 EXCEPT !.activeRequests = MapDelete(@, requestId)], ret |-> TRUE,
             raised |-> FALSE]

(***************************************************************************)
(* cancel(requestId): M after the call, the value returned, and whether    *)
(* the call raised an error instead of returning.  A cancelToken is        *)
(* invoked when it is a function or an object with a cancel method;        *)
(* cancelTokenCalls counts the invocations.                                *)
(***************************************************************************)
cancel(M, requestId) ==
    IF requestId \notin DOMAIN M.activeRequests THEN [M |-> M, ret |-> FALSE, raised |-> FALSE]
    ELSE
    LET e == M.activeRequests[requestId]
        \* requestInfo.isCancelled = true
        M1 == [M EXCEPT !.requestInfos[e].isCancelled = TRUE]
        \* the controller, then the cancel token, each in a try with an empty catch
        M2 == AbortOf(M1, e)
        M3 == CancelTokenOf(M2, e)
        \* reject the wrapper promise when this.verbose
        M4 == IF M3.verbose
              THEN rejectWrapper(M3, e, CancelError(CancelMessage(requestId))) ELSE M3
    IN [M |-> [M4 EXCEPT !.activeRequests = MapDelete(@, requestId)], ret |-> TRUE,
        raised |-> \/ TryCatch(AbortRaises(M1, e))
                   \/ TryCatch(CancelTokenRaises(M2, e))]

\* A cancelAll() that stops after the first request.
cancelEachOnlyFirst(M, requestIds, cancelledCount) ==
    IF requestIds = {} THEN [M |-> M, ret |-> cancelledCount, raised |-> FALSE]
    ELSE LET requestId == CHOOSE r \in requestIds : TRUE
             done == cancel(M, requestId)
         IN [M |-> done.M, ret |-> cancelledCount + (IF done.ret THEN 1 ELSE 0),
             raised |-> done.raised]

\* The forEach of cancelAll() over the identifiers listed when it started; an
\* error a cancel() raises ends it.
RECURSIVE cancelEach(_, _, _)
cancelEach(M, requestIds, cancelledCount) ==
    IF requestIds = {} THEN [M |-> M, ret |-> cancelledCount, raised |-> FALSE]
    ELSE LET requestId == CHOOSE r \in requestIds : TRUE
             done == cancel(M, requestId)
         IN IF done.raised THEN [M |-> done.M, ret |-> cancelledCount, raised |-> TRUE]
            ELSE cancelEach(done.M, requestIds \ {requestId},
                            cancelledCount + (IF done.ret THEN 1 ELSE 0))

\* cancelAll(): M after the call, the count returned, and whether it raised an error.
cancelAll(M) == cancelEach(M, DOMAIN M.activeRequests, 0)

\* A clear() that cancels what it drops.
clearCancelling(M) == cancelAll(M).M

\* clear()
clear(M) == [M EXCEPT !.activeRequests = EmptyMap]

\* isActive(requestId)
isActive(M, requestId) == requestId \in DOMAIN M.activeRequests

\* getActiveCount()
getActiveCount(M) == Cardinality(DOMAIN M.activeRequests)

\* setOptions(options), options.verbose being "undefined", "true" or "false".
setOptions(M, optionsVerbose) ==
    IF optionsVerbose # "undefined" THEN [M EXCEPT !.verbose = (optionsVerbose = "true")] ELSE M

\* The requestInfo object #_request stores.
RequestInfo(M, requestId, requestPromise, c, options) ==
    [requestId |-> requestId,
     promise |-> IF requestPromise = "value" THEN "value" ELSE "pending",
     abortController |-> c,
     cancelToken |-> options.cancelToken,
     wrapperPromise |-> [state |-> "pending", value |-> <<>>],
     settleCalls |-> 0,
     cancelTokenCalls |-> 0,
     isCancelled |-> FALSE,
     verbose |-> M.verbose]

\* A #_request that cancels every tracked request, not only the one with its identifier.
requestSupersedeAll(M, requestId, requestPromise, options) ==
    LET M1 == IF options.abortController = 0 THEN clearAbortController(M) ELSE M
        got == IF options.abortController # 0
               THEN [M |-> M1, ret |-> options.abortController]
               ELSE getAbortController(M1)
        M3 == IF ~options.noCancel THEN cancelAll(got.M).M ELSE got.M
        requestInfo == RequestInfo(M3, requestId, requestPromise, got.ret, options)
    IN [M3 EXCEPT !.requestInfos = MapSet(@, NewIdentity(@), requestInfo),
                  !.activeRequests = MapSet(@, requestId, NewIdentity(M.requestInfos))]

\* A #_request that registers the new entry without cancelling the old one.
requestNoSupersede(M, requestId, requestPromise, options) ==
    LET M1 == IF options.abortController = 0 THEN clearAbortController(M) ELSE M
        got == IF options.abortController # 0
               THEN [M |-> M1, ret |-> options.abortController]
               ELSE getAbortController(M1)
        M3 == got.M
        requestInfo == RequestInfo(M3, requestId, requestPromise, got.ret, options)
    IN [M3 EXCEPT !.requestInfos = MapSet(@, NewIdentity(@), requestInfo),
                  !.activeRequests = MapSet(@, requestId, NewIdentity(M.requestInfos))]

\* A #_request that registers the new entry and then cancels the entry of its identifier.
requestCancelLate(M, requestId, requestPromise, options) ==
    LET M1 == IF options.abortController = 0 THEN clearAbortController(M) ELSE M
        got == IF options.abortController # 0
               THEN [M |-> M1, ret |-> options.abortController]
               ELSE getAbortController(M1)
        requestInfo == RequestInfo(got.M, requestId, requestPromise, got.ret, options)
        M3 == [got.M EXCEPT !.requestInfos = MapSet(@, NewIdentity(@), requestInfo),
                            !.activeRequests = MapSet(@, requestId, NewIdentity(M.requestInfos))]
    IN IF ~options.noCancel THEN cancel(M3, requestId).M ELSE M3

(***************************************************************************)
(* #_request(requestId, requestPromise, options), up to the registration   *)
(* of the new requestInfo.  requestPromise is "promise" (a pending         *)
(* promise), "string" (a URL: fetch is called and gives a promise),        *)
(* "function" (it is called and gives a promise), "functionThrows" (it is  *)
(* called and throws) or "value" (no then method).                         *)
(* options.abortController is a controller, or 0 for none.                 *)
(***************************************************************************)

\* The controller of the call: M after the slot was cleared and a controller
\* taken, and the controller.
ControllerFor(M, options) ==
    LET \* no controller given: clear the slot, so that a new one is made
        M1 == IF options.abortController = 0 THEN clearAbortController(M) ELSE M
    IN IF options.abortController # 0
       THEN [M |-> M1, ret |-> options.abortController]
       ELSE getAbortController(M1)

\* The keys of options that are the manager's, not the underlying call's.
customOptions == {"abortController", "cancelToken", "requestKey", "noCancel"}

\* A #_prepareFetchOptions that sets the signal first, so that a signal among
\* the caller's options replaces it.
prepareFetchOptionsCallerSignal(options, signal) ==
    [k \in (DOMAIN options \ customOptions) \cup {"signal"} |->
        IF k \in DOMAIN options THEN options[k] ELSE signal]

\* #_prepareFetchOptions(options, signal), signal being the controller whose
\* signal it is: the options without the manager's keys, and the signal.
prepareFetchOptions(options, signal) ==
    [k \in (DOMAIN options \ customOptions) \cup {"signal"} |->
        IF k = "signal" THEN signal ELSE options[k]]

\* The fetchOptions #_request calls the function, or fetch, with.
LaunchOptions(M, options) == prepareFetchOptions(options, ControllerFor(M, options).ret)

\* The requestPromise arguments #_request turns into an underlying call itself.
Launched == {"function", "functionThrows", "string"}

\* The state in which #_request calls the function, or fetch for a URL.
AtLaunch(M, options) == ControllerFor(M, options).M

\* The call of the function throws; #_request has no try around it.
LaunchRaises(requestPromise) == requestPromise = "functionThrows"

\* Cancel the previous request with the same identifier, got being what
\* ControllerFor gave.
AfterCancel(got, requestId, options) ==
    IF ~options.noCancel THEN cancel(got.M, requestId).M ELSE got.M

\* A #_request that resolves the wrapper at once with a requestPromise that has no then.
requestSettleNow(M, requestId, requestPromise, options) ==
    LET got == ControllerFor(M, options)
        M3 == AfterCancel(got, requestId, options)
        requestInfo == RequestInfo(M3, requestId, requestPromise, got.ret, options)
        new == NewIdentity(M.requestInfos)
        M4 == [M3 EXCEPT !.requestInfos = MapSet(@, new, requestInfo),
                         !.activeRequests = MapSet(@, requestId, new)]
    IN IF LaunchRaises(requestPromise) THEN got.M
       ELSE IF requestPromise = "value" THEN resolveWrapper(M4, new, RawValue(new))
       ELSE M4

\* A #_request that cancels the previous request before it calls the function.
requestCancelFirst(M, requestId, requestPromise, options) ==
    LET got == ControllerFor(M, options)
        M3 == AfterCancel(got, requestId, options)
        requestInfo == RequestInfo(M3, requestId, requestPromise, got.ret, options)
    IN IF LaunchRaises(requestPromise) THEN M3
       ELSE [M3 EXCEPT !.requestInfos = MapSet(@, NewIdentity(@), requestInfo),
                       !.activeRequests = MapSet(@, requestId, NewIdentity(M.requestInfos))]

\* M after #_request: after the registration, or as the error thrown by the
\* function leaves it.
_request(M, requestId, requestPromise, options) ==
    LET got == ControllerFor(M, options)
        M3 == AfterCancel(got, requestId, options)
        requestInfo == RequestInfo(M3, requestId, requestPromise, got.ret, options)
    IN IF LaunchRaises(requestPromise) THEN got.M
       ELSE [M3 EXCEPT !.requestInfos = MapSet(@, NewIdentity(@), requestInfo),
                       !.activeRequests = MapSet(@, requestId, NewIdentity(M.requestInfos))]

\* A fulfilment continuation that leaves the entry in the table.
onFulfilledKept(M, e) ==
    LET M1 == [M EXCEPT !.requestInfos[e].promise = "fulfilled"]
    IN IF IsCurrent(M1, e) /\ ~M1.requestInfos[e].isCancelled
       THEN resolveWrapper(M1, e, Result(e))
       ELSE M1

\* A fulfilment continuation without the check of the table.
onFulfilledUnchecked(M, e) ==
    LET M1 == [M EXCEPT !.requestInfos[e].promise = "fulfilled"]
    IN resolveWrapper([M1 EXCEPT !.activeRequests =
                          MapDelete(@, M1.requestInfos[e].requestId)], e, Result(e))

\* requestPromise.then((result) => ...): the underlying call fulfilled with Result(e).
onFulfilled(M, e) ==
    LET M1 == [M EXCEPT !.requestInfos[e].promise = "fulfilled"]
    IN IF IsCurrent(M1, e) /\ ~M1.requestInfos[e].isCancelled
       THEN resolveWrapper([M1 EXCEPT !.activeRequests =
                               MapDelete(@, M1.requestInfos[e].requestId)], e, Result(e))
       ELSE M1

\* A failure continuation that rejects with an error of its own.
onErrorMasked(M, e) ==
    LET M1 == [M EXCEPT !.requestInfos[e].promise = "rejected"]
        info == M1.requestInfos[e]
        M2 == [M1 EXCEPT !.activeRequests = MapDelete(@, info.requestId)]
    IN IF ~IsCurrent(M1, e) THEN M1
       ELSE rejectWrapper(M2, e, CancelError(<<"Request was cancelled">>))

\* A failure continuation that takes an aborted signal for a cancellation.
onErrorAborted(M, e) ==
    LET M1 == [M EXCEPT !.requestInfos[e].promise = "rejected"]
        info == M1.requestInfos[e]
        M2 == [M1 EXCEPT !.activeRequests = MapDelete(@, info.requestId)]
    IN IF ~IsCurrent(M1, e) THEN M1
       ELSE IF ~info.isCancelled /\ ~M1.controllers[info.abortController]
            THEN rejectWrapper(M2, e, Failure(e))
       ELSE IF info.verbose
            THEN rejectWrapper(M2, e, CancelError(<<"Request was cancelled">>))
       ELSE M2

\* A failure continuation that leaves the entry in the table.
onErrorKept(M, e) ==
    LET M1 == [M EXCEPT !.requestInfos[e].promise = "rejected"]
    IN IF ~IsCurrent(M1, e) THEN M1 ELSE rejectWrapper(M1, e, Failure(e))

\* A failure continuation without the check of the table.
onErrorUnchecked(M, e) ==
    LET M1 == [M EXCEPT !.requestInfos[e].promise = "rejected"]
        info == M1.requestInfos[e]
        M2 == [M1 EXCEPT !.activeRequests = MapDelete(@, info.requestId)]
    IN IF ~info.isCancelled THEN rejectWrapper(M2, e, Failure(e))
       ELSE IF info.isCancelled /\ info.verbose
            THEN rejectWrapper(M2, e, CancelError(<<"Request was cancelled">>))
       ELSE M2

\* onError(scope, error): the underlying call failed with Failure(e).
onError(M, e) ==
    LET M1 == [M EXCEPT !.requestInfos[e].promise = "rejected"]
        info == M1.requestInfos[e]
        M2 == [M1 EXCEPT !.activeRequests = MapDelete(@, info.requestId)]
    IN IF ~IsCurrent(M1, e) THEN M1
       ELSE IF ~info.isCancelled THEN rejectWrapper(M2, e, Failure(e))
       ELSE IF info.isCancelled /\ info.verbose
            THEN rejectWrapper(M2, e, CancelError(<<"Request was cancelled">>))
       ELSE M2

\* A timer callback without the check of the table and of the cancelled mark.
onTimeoutUnchecked(M, e) ==
    LET M1 == [M EXCEPT !.requestInfos[e].promise = "timedOut"]
    IN resolveWrapper([M1 EXCEPT !.activeRequests =
                          MapDelete(@, M1.requestInfos[e].requestId)], e, RawValue(e))

\* A timer callback that resolves the wrapper and leaves the entry in the table.
onTimeoutKept(M, e) ==
    LET M1 == [M EXCEPT !.requestInfos[e].promise = "timedOut"]
    IN IF IsCurrent(M1, e) /\ ~M1.requestInfos[e].isCancelled
       THEN resolveWrapper(M1, e, RawValue(e))
       ELSE M1

\* setTimeout(() => ..., 0): requestPromise was a value without then.
onTimeout(M, e) ==
    LET M1 == [M EXCEPT !.requestInfos[e].promise = "timedOut"]
    IN IF IsCurrent(M1, e) /\ ~M1.requestInfos[e].isCancelled
       THEN resolveWrapper([M1 EXCEPT !.activeRequests =
                               MapDelete(@, M1.requestInfos[e].requestId)], e, RawValue(e))
       ELSE M1

\* request(url, requestPromise, options); now and rnd are what Date.now() and
\* Math.random() give if the identifier is generated from them.
request(M, url, requestPromise, options, now, rnd) ==
    _request(M, GenerateRequestId(url, options.requestKey, options.noCancel, now, rnd),
             requestPromise, options)

\* fetch(url, options)
fetch(M, url, options, now, rnd) ==
    _request(M, GenerateRequestId(url, options.requestKey, options.noCancel, now, rnd),
             "string", options)

\* request(url, requestPromise, options) has no try around #_request: the
\* call raises what the call of a function requestPromise throws.
requestRaises(requestPromise) == LaunchRaises(requestPromise)

\* What ajaxFunction returns: null, or an object that may have a then method,
\* an abort property and an xhr with an abort property.  abort and xhrAbort
\* are "none", "value", "function" or "throwing".
Req(then, abort, xhrAbort) ==
    [type |-> "object", then |-> then, abort |-> abort, xhrAbort |-> xhrAbort]

\* The abort method ajax() finds on req: req.abort, else req.xhr.abort, "none" for null.
AbortMethodOf(req) ==
    IF IsNullish(req) THEN "none"
    ELSE IF req.abort \in Functions THEN req.abort
    ELSE IF req.xhrAbort \in Functions THEN req.xhrAbort
    ELSE "none"

\* req as #_request takes it: a promise if it has a then method, else a value.
RequestPromiseOf(req) == IF ~IsNullish(req) /\ req.then THEN "promise" ELSE "value"

\* { url, ...requestOptions }: the argument ajax() calls ajaxFunction with.
AjaxParams(url, requestOptions) ==
    [k \in {"url"} \cup DOMAIN requestOptions |->
        IF k \in DOMAIN requestOptions THEN requestOptions[k] ELSE url]

\* The message of the error ajax() throws for an ajaxFunction that is no function.
AjaxTypeMessage ==
    <<"ajaxFunction", " ", "parameter", " ", "must", " ", "be", " ", "a", " ", "function">>

\* What a throwing ajaxFunction or requestPromise function throws.
Thrown == <<"thrown">>

(***************************************************************************)
(* ajax(ajaxFunction, url, options): M after the call; whether the call    *)
(* raised an error and the error; the promise returned (the wrapper of a   *)
(* requestInfo, or a rejected promise); the argument ajaxFunction got.     *)
(***************************************************************************)
ajax(M, ajaxFunction, url, options, now, rnd) ==
    IF ajaxFunction.type # "function"
    THEN [M |-> M, raised |-> TRUE, error |-> CancelError(AjaxTypeMessage),
          ret |-> [promise |-> "none"], received |-> EmptyMap]
    ELSE
    LET requestId == GenerateRequestId(url, options.requestKey, options.noCancel, now, rnd)
        M1 == clearAbortController(M)
        got == IF options.abortController # 0
               THEN [M |-> M1, ret |-> options.abortController]
               ELSE getAbortController(M1)
        req == ajaxFunction.returns
        abortMethod == AbortMethodOf(req)
        M2 == IF abortMethod # "none"
              THEN addAbortListener(got.M, abortMethod, got.ret).M ELSE got.M
        M3 == _request(M2, requestId, RequestPromiseOf(req),
                       [options EXCEPT !.abortController = got.ret])
    IN IF ajaxFunction.throws
       THEN \* catch (error) { return Promise.reject(error) }
            [M |-> got.M, raised |-> FALSE, error |-> <<>>,
             ret |-> [promise |-> "rejected", value |-> Thrown],
             received |-> AjaxParams(url, options)]
       ELSE [M |-> M3, raised |-> FALSE, error |-> <<>>,
             ret |-> [promise |-> "wrapper", of |-> M3.activeRequests[requestId]],
             received |-> AjaxParams(url, options)]

(***************************************************************************)
(* The behaviours: calls of the public methods by the caller, and the      *)
(* turns in which the underlying calls deliver their outcomes.             *)
(***************************************************************************)

\* new RequestManager(managerOptions)
Init ==
    /\ activeRequests = EmptyMap
    /\ requestInfos = EmptyMap
    /\ controllers = EmptyMap
    /\ abortController = 0
    /\ verbose \in BOOLEAN
    /\ obtained = 0
    /\ listeners = EmptyMap

\* The identity of a controller the caller makes for a call.  Identities are
\* arbitrary: the caller's controllers take the negative ones.
CallerController(M) ==
    LET e == NewIdentity(M.requestInfos)
    IN IF -e \notin DOMAIN M.controllers THEN -e
       ELSE -(CHOOSE n \in 1..(Cardinality(DOMAIN M.controllers) + 1) :
                  -n \notin DOMAIN M.controllers)

\* The identity of a controller with a throwing abort() the caller makes for a call.
ThrowingController(M) ==
    LET e == ThrowingFrom + NewIdentity(M.requestInfos)
    IN IF -e \notin DOMAIN M.controllers THEN -e
       ELSE -(CHOOSE n \in ThrowingFrom..(ThrowingFrom + Cardinality(DOMAIN M.controllers) + 1) :
                  -n \notin DOMAIN M.controllers)

\* The controller the caller passes in options.abortController, 0 for none.
ControllerOf(M, s) ==
    CASE s.options.abortController = "new" -> CallerController(M)
      [] s.options.abortController = "throwing" -> ThrowingController(M)
      [] s.options.abortController = "manager" -> getAbortController(M).ret
      [] OTHER -> 0

\* The options of submission s as the method gets them in state M.
OptionsOf(M, s) == [s.options EXCEPT !.abortController = ControllerOf(M, s)]

\* The state in which the method of submission s starts: a controller the
\* caller made for the call is a new object.
Before(M, s) ==
    IF s.options.abortController = "manager" THEN getAbortController(M).M
    ELSE IF ControllerOf(M, s) # 0
    THEN [M EXCEPT !.controllers = MapSet(@, ControllerOf(M, s), FALSE)]
    ELSE M

\* The state the call of submission s leaves.
Submitted(M, s, now, rnd) ==
    IF s.op = "fetch"
    THEN fetch(Before(M, s), s.url, OptionsOf(M, s), now, rnd)
    ELSE request(Before(M, s), s.url, s.requestPromise, OptionsOf(M, s), now, rnd)

\* Room for one more requestInfo object.
HasRoom(M) == Cardinality(DOMAIN M.requestInfos) < MaxRequests

Submit(s) ==
    /\ HasRoom(State)
    /\ \E now \in Times, rnd \in Rands : Becomes(Submitted(State, s, now, rnd))

\* request(url, requestPromise, options)
Request == \E s \in Submissions : s.op = "request" /\ Submit(s)

\* fetch(url, options)
Fetch == \E s \in Submissions : s.op = "fetch" /\ Submit(s)

\* Identifiers a caller may pass to cancel(): the tracked ones and one that may not be.
CancelIds(M) == DOMAIN M.activeRequests \cup {Prefix \o <<"b">>}

Cancel == \E requestId \in CancelIds(State) : Becomes(cancel(State, requestId).M)

CancelAll == Becomes(cancelAll(State).M)

Clear == Becomes(clear(State))

SetOptions ==
    \E optionsVerbose \in {"undefined", "true", "false"} :
        Becomes(setOptions(State, optionsVerbose))

\* The requestInfos whose underlying promise is pending, and those with a timer.
Pending(M) == {e \in DOMAIN M.requestInfos : M.requestInfos[e].promise = "pending"}
Timers(M) == {e \in DOMAIN M.requestInfos : M.requestInfos[e].promise = "value"}

\* The underlying call of requestInfo e fulfils; its continuation runs.
Fulfil == \E e \in Pending(State) : Becomes(onFulfilled(State, e))

\* The underlying call of requestInfo e fails; its continuation runs.
Fail == \E e \in Pending(State) : Becomes(onError(State, e))

\* The timer set for a requestPromise without then fires.
Timeout == \E e \in Timers(State) : Becomes(onTimeout(State, e))

Next ==
    \/ Request
    \/ Fetch
    \/ Cancel
    \/ CancelAll
    \/ Clear
    \/ SetOptions
    \/ Fulfil
    \/ Fail
    \/ Timeout

Spec == Init /\ [][Next]_vars

(***************************************************************************)
(* Properties.  A property of a method is stated of every reachable state  *)
(* it can start in: the state it leaves is the value of its operator.      *)
(***************************************************************************)

\* signal.aborted of the controller of requestInfo e.
Aborted(M, e) == M.controllers[M.requestInfos[e].abortController]

\* The call that takes M0 to M1 invoked the cancel handle of requestInfo e, if it has one.
HandleInvoked(M0, M1, e) ==
    M0.requestInfos[e].cancelToken \in Invocable
        => M1.requestInfos[e].cancelTokenCalls = M0.requestInfos[e].cancelTokenCalls + 1

\* The identifier the call of submission s works with.
IdentifierOf(s, now, rnd) ==
    GenerateRequestId(s.url, s.options.requestKey, s.options.noCancel, now, rnd)

\* The calls the caller can make: a submission with what the clock and the
\* random generator give.  They are read for a submit with noCancel only, so
\* that for the others one value stands for all.
Calls ==
    {c \in Submissions \X Times \X Rands :
        c[1].options.noCancel \/ c[3] = CHOOSE rnd \in Rands : TRUE}

\* What the continuation or timer of an awaited requestInfo e can make of M.
Deliveries(M, e) ==
    IF e \in Pending(M) THEN {onFulfilled(M, e), onError(M, e)}
    ELSE IF e \in Timers(M) THEN {onTimeout(M, e)}
    ELSE {}

\* The states one turn can make of M, before collection.
Turns(M) ==
    {Submitted(M, c[1], c[2], c[3]) : c \in Calls}
        \cup {cancel(M, requestId).M : requestId \in CancelIds(M)}
        \cup {cancelAll(M).M, clear(M)}
        \cup {setOptions(M, v) : v \in {"undefined", "true", "false"}}
        \cup UNION {Deliveries(M, e) : e \in DOMAIN M.requestInfos}

\* C1 (supersession): a submit without noCancel under an identifier whose entry
\* is tracked leaves that entry marked cancelled, its controller's signal
\* aborted and its cancel handle called; and the wrapper of a cancelled entry
\* is not fulfilled, neither now nor when its underlying call fulfils later.
C1_Supersession ==
    /\ \A c \in Calls :
         LET requestId == IdentifierOf(c[1], c[2], c[3])
             M == Submitted(State, c[1], c[2], c[3])
         IN (~c[1].options.noCancel /\ isActive(State, requestId)) =>
              LET first == activeRequests[requestId]
              IN /\ M.requestInfos[first].isCancelled
                 /\ Aborted(M, first)
                 /\ HandleInvoked(State, M, first)
                 /\ M.activeRequests[requestId] # first
                 /\ \A D \in Deliveries(M, first) :
                      D.requestInfos[first].wrapperPromise.state # "fulfilled"
    /\ \A e \in DOMAIN requestInfos :
         requestInfos[e].isCancelled =>
           /\ requestInfos[e].wrapperPromise.state # "fulfilled"
           /\ \A D \in Deliveries(State, e) :
                D.requestInfos[e].wrapperPromise.state # "fulfilled"

\* C1: a request was superseded and its underlying call is still to deliver.
C1_Witness ==
    \E e, f \in DOMAIN requestInfos :
        /\ e # f
        /\ requestInfos[e].requestId = Prefix \o <<"a">>
        /\ requestInfos[f].requestId = Prefix \o <<"a">>
        /\ IsCurrent(State, f)
        /\ requestInfos[e].isCancelled
        /\ requestInfos[e].promise = "pending"
        /\ Aborted(State, e)
        /\ requestInfos[e].cancelTokenCalls = 1

\* C2 (settled at most once, by the occupant): no turn calls resolve or reject
\* of a wrapper more than once in all, and a turn that calls one does so for a
\* requestInfo that is the table's entry for its identifier when the turn
\* starts; the wrapper of a requestInfo that left the table before its
\* underlying call delivered is left as it is by every later turn.
C2_SettledOnceByOccupant ==
    /\ \A e \in DOMAIN requestInfos : requestInfos[e].settleCalls <= 1
    /\ \A M \in Turns(State) :
         \A e \in DOMAIN requestInfos :
             /\ M.requestInfos[e].settleCalls <= 1
             /\ M.requestInfos[e].settleCalls > requestInfos[e].settleCalls
                  => IsCurrent(State, e)
             /\ ~IsCurrent(State, e)
                  => M.requestInfos[e].wrapperPromise = requestInfos[e].wrapperPromise

\* C2: a wrapper was rejected by a cancel and the underlying call is still to deliver.
C2_Witness ==
    \E e \in DOMAIN requestInfos :
        /\ ~IsCurrent(State, e)
        /\ requestInfos[e].promise = "pending"
        /\ requestInfos[e].settleCalls = 1
        /\ requestInfos[e].wrapperPromise.state = "rejected"

\* C3 (stale completion ignored): when A is not the table's entry any more and
\* B is the entry under the same identifier, the fulfilment or failure of A's
\* underlying call leaves the table and B as they are and calls neither
\* resolve nor reject of A's wrapper; B's wrapper then still settles with the
\* outcome of B's own underlying call.
C3_StaleCompletionIgnored ==
    \A A, B \in DOMAIN requestInfos :
        (/\ A # B
         /\ requestInfos[A].requestId = requestInfos[B].requestId
         /\ IsCurrent(State, B)) =>
            \A M \in Deliveries(State, A) :
                /\ M.activeRequests = activeRequests
                /\ IsCurrent(M, B)
                /\ M.requestInfos[B] = requestInfos[B]
                /\ M.requestInfos[A].wrapperPromise = requestInfos[A].wrapperPromise
                /\ M.requestInfos[A].settleCalls = requestInfos[A].settleCalls
                /\ B \in Pending(M) =>
                     /\ onFulfilled(M, B).requestInfos[B].wrapperPromise
                            = [state |-> "fulfilled", value |-> Result(B)]
                     /\ onError(M, B).requestInfos[B].wrapperPromise
                            = [state |-> "rejected", value |-> Failure(B)]
                /\ B \in Timers(M) =>
                     onTimeout(M, B).requestInfos[B].wrapperPromise
                         = [state |-> "fulfilled", value |-> RawValue(B)]

\* C3: A was dropped by clear(), B was submitted under the same identifier, and
\* A's underlying call is still to deliver.
C3_Witness ==
    \E A, B \in DOMAIN requestInfos :
        /\ A # B
        /\ requestInfos[A].requestId = Prefix \o <<"a">>
        /\ requestInfos[B].requestId = Prefix \o <<"a">>
        /\ IsCurrent(State, B)
        /\ ~requestInfos[A].isCancelled
        /\ requestInfos[A].promise = "pending"
        /\ requestInfos[B].promise = "pending"

\* The identifiers generated for submits with noCancel.
Generated ==
    {GenerateRequestId(Str(<<>>), Undefined, TRUE, now, rnd) : now \in Times, rnd \in Rands}

\* C4 (no silent overwrite): the table holds at most one requestInfo per
\* identifier, and it is one that is not cancelled; and whenever a turn puts
\* another requestInfo under an identifier that had an entry, other than an
\* identifier generated for noCancel, the earlier entry is marked cancelled,
\* its controller's signal is aborted and its cancel handle was called.
C4_NoSilentOverwrite ==
    /\ [](\A e, f \in DOMAIN requestInfos :
            /\ (IsCurrent(State, e) /\ IsCurrent(State, f)
                  /\ requestInfos[e].requestId = requestInfos[f].requestId) => e = f
            /\ IsCurrent(State, e) => ~requestInfos[e].isCancelled)
    /\ [][\A requestId \in DOMAIN activeRequests :
            (/\ requestId \notin Generated
             /\ requestId \in DOMAIN activeRequests'
             /\ activeRequests'[requestId] # activeRequests[requestId]) =>
                LET prior == activeRequests[requestId]
                IN /\ prior \in DOMAIN requestInfos'
                   /\ requestInfos'[prior].isCancelled
                   /\ controllers'[requestInfos'[prior].abortController]
                   /\ HandleInvoked(State, State', prior)]_vars

\* C4: a requestInfo with a cancel-method object was superseded.
C4_Witness ==
    \E e, f \in DOMAIN requestInfos :
        /\ e # f
        /\ requestInfos[e].requestId = Prefix \o <<"b">>
        /\ requestInfos[f].requestId = Prefix \o <<"b">>
        /\ IsCurrent(State, f)
        /\ requestInfos[e].isCancelled
        /\ requestInfos[e].cancelToken = "object"
        /\ requestInfos[e].cancelTokenCalls = 1

\* C5 (suppression independence), as the specification states it: a submit with
\* noCancel leaves every entry made by an earlier submit with noCancel as it
\* was, not cancelled, its signal not aborted and still the table's entry for
\* its identifier, so that its wrapper settles with its own outcome.
C5_SuppressionIndependence ==
    \A c \in Calls :
        c[1].options.noCancel =>
            LET M == Submitted(State, c[1], c[2], c[3])
            IN \A e \in DOMAIN requestInfos :
                 (requestInfos[e].requestId \in Generated /\ IsCurrent(State, e)) =>
                    /\ ~M.requestInfos[e].isCancelled
                    /\ ~Aborted(M, e)
                    /\ IsCurrent(M, e)
                    /\ \A D \in Deliveries(M, e) :
                         D.requestInfos[e].wrapperPromise.state # "pending"

\* A state M in which requestInfo e, tracked in State, has been cancelled by
\* cancel(), by cancelAll() or by a superseding submit.
Cancellations(e) ==
    {cancel(State, requestInfos[e].requestId).M, cancelAll(State).M}
        \cup {Submitted(State, c[1], c[2], c[3]) :
                c \in {d \in Calls : /\ ~d[1].options.noCancel
                                     /\ IdentifierOf(d[1], d[2], d[3])
                                            = requestInfos[e].requestId}}

\* C6 (verbose gating), as the specification states it: cancelling an entry
\* made while verbose was true rejects its wrapper with a cancellation error;
\* cancelling one made while verbose was false leaves its wrapper pending, also
\* when its underlying call delivers afterwards.
C6_VerboseGating ==
    \A e \in DOMAIN requestInfos :
        IsCurrent(State, e) =>
            \A M \in Cancellations(e) :
                /\ requestInfos[e].verbose =>
                     /\ M.requestInfos[e].wrapperPromise.state = "rejected"
                     /\ M.requestInfos[e].wrapperPromise.value[1] = "Error"
                /\ ~requestInfos[e].verbose =>
                     /\ M.requestInfos[e].wrapperPromise.state = "pending"
                     /\ \A D \in Deliveries(M, e) :
                          D.requestInfos[e].wrapperPromise.state = "pending"

\* C7 (verbose captured at creation), as the specification states it: whatever
\* setOptions() made of verbose before cancel(requestId) runs, the cancel
\* rejects the wrapper exactly when verbose was true at the submit.
C7_VerboseCapturedAtCreation ==
    \A e \in DOMAIN requestInfos :
        IsCurrent(State, e) =>
            \A v \in {"true", "false"} :
                LET M == cancel(setOptions(State, v), requestInfos[e].requestId).M
                IN (M.requestInfos[e].wrapperPromise.state = "rejected")
                       <=> requestInfos[e].verbose

\* C8 (cancel of a tracked identifier): cancel(requestId) returns true, and
\* leaves the entry marked cancelled, its controller's signal aborted, its
\* cancel handle called and the identifier not tracked.
C8_CancelTracked ==
    \A requestId \in DOMAIN activeRequests :
        LET e == activeRequests[requestId]
            done == cancel(State, requestId)
        IN /\ done.ret = TRUE
           /\ done.M.requestInfos[e].isCancelled
           /\ Aborted(done.M, e)
           /\ HandleInvoked(State, done.M, e)
           /\ ~isActive(done.M, requestId)

\* C8: a request with a cancel function was cancelled and nothing took its place.
C8_Witness ==
    \E e \in DOMAIN requestInfos :
        /\ requestInfos[e].isCancelled
        /\ requestInfos[e].cancelToken = "function"
        /\ requestInfos[e].cancelTokenCalls = 1
        /\ Aborted(State, e)
        /\ ~isActive(State, requestInfos[e].requestId)

\* Identifiers a caller can name: those of the submissions, and one more.
Identifiers ==
    {IdentifierOf(c[1], c[2], c[3]) : c \in Calls} \cup {Prefix \o <<"c">>}

\* C9 (idempotent cancel): cancel(requestId) of an identifier that is not
\* tracked returns false and leaves the table, the controllers and the
\* wrappers as they are; of a tracked one it returns true, and called again
\* at once it returns false and changes nothing.
C9_IdempotentCancel ==
    \A requestId \in Identifiers :
        LET once == cancel(State, requestId)
            twice == cancel(once.M, requestId)
        IN /\ ~isActive(State, requestId) => (once.ret = FALSE /\ once.M = State)
           /\ isActive(State, requestId) =>
                (once.ret = TRUE /\ twice.ret = FALSE /\ twice.M = once.M)

\* C9: a request made with noCancel was cancelled; its identifier is not tracked.
C9_Witness ==
    \E e \in DOMAIN requestInfos :
        /\ requestInfos[e].requestId \in Generated
        /\ requestInfos[e].isCancelled
        /\ Awaited(State, e)
        /\ ~isActive(State, requestInfos[e].requestId)

\* C10 (cancelAll): cancelAll() returns the number of entries the table holds
\* when it is called, and leaves the table empty and each of those entries
\* marked cancelled with its controller's signal aborted.
C10_CancelAll ==
    LET done == cancelAll(State)
    IN /\ done.ret = getActiveCount(State)
       /\ getActiveCount(done.M) = 0
       /\ \A requestId \in DOMAIN activeRequests :
            LET e == activeRequests[requestId]
            IN /\ done.M.requestInfos[e].isCancelled
               /\ Aborted(done.M, e)

\* C10: two requests under different identifiers are cancelled, the table is empty.
C10_Witness ==
    /\ getActiveCount(State) = 0
    /\ \E e, f \in DOMAIN requestInfos :
        /\ requestInfos[e].requestId # requestInfos[f].requestId
        /\ requestInfos[e].isCancelled /\ requestInfos[f].isCancelled
        /\ Aborted(State, e) /\ Aborted(State, f)

\* C11 (clear): clear() leaves the table empty, and leaves every requestInfo
\* (its cancelled mark, the calls of its cancel handle, its wrapper), every
\* controller's signal, the manager's controller and verbose as they were.
C11_ClearOnlyEmpties ==
    LET M == clear(State)
    IN /\ getActiveCount(M) = 0
       /\ M.requestInfos = requestInfos
       /\ M.controllers = controllers
       /\ M.abortController = abortController
       /\ M.verbose = verbose

\* C11: two requests under different identifiers were dropped by clear(): the
\* table is empty, neither is cancelled, aborted or settled, and both
\* underlying calls are still to deliver.
C11_Witness ==
    /\ getActiveCount(State) = 0
    /\ \E e, f \in DOMAIN requestInfos :
        /\ requestInfos[e].requestId = Prefix \o <<"a">>
        /\ requestInfos[f].requestId = Prefix \o <<"b">>
        /\ \A g \in {e, f} :
            /\ ~requestInfos[g].isCancelled
            /\ ~Aborted(State, g)
            /\ requestInfos[g].cancelTokenCalls = 0
            /\ requestInfos[g].wrapperPromise.state = "pending"
            /\ requestInfos[g].promise = "pending"

\* C12 (cancellation never raises): cancel(requestId) of a tracked identifier
\* returns true without raising, whatever abort() and the cancel handle do:
\* the signal is aborted and the handle called even when the other one throws,
\* and the entry is removed; cancelAll() does not raise either, counts every
\* entry and leaves the table empty and every entry cancelled.
C12_CancelNeverRaises ==
    /\ \A requestId \in DOMAIN activeRequests :
         LET e == activeRequests[requestId]
             done == cancel(State, requestId)
         IN /\ ~done.raised
            /\ done.ret = TRUE
            /\ Aborted(done.M, e)
            /\ HandleInvoked(State, done.M, e)
            /\ done.M.requestInfos[e].isCancelled
            /\ ~isActive(done.M, requestId)
    /\ LET all == cancelAll(State)
       IN /\ ~all.raised
          /\ all.ret = getActiveCount(State)
          /\ getActiveCount(all.M) = 0
          /\ \A requestId \in DOMAIN activeRequests :
               all.M.requestInfos[activeRequests[requestId]].isCancelled

\* C12: a request whose controller's abort() and whose cancel handle both throw
\* was cancelled, with another request: both calls were made, and the table
\* is empty.
C12_Witness ==
    /\ getActiveCount(State) = 0
    /\ \E e, f \in DOMAIN requestInfos :
        /\ e # f
        /\ requestInfos[e].abortController <= -ThrowingFrom
        /\ requestInfos[e].cancelToken = "throwing"
        /\ requestInfos[e].isCancelled
        /\ Aborted(State, e)
        /\ requestInfos[e].cancelTokenCalls = 1
        /\ requestInfos[f].isCancelled

\* C13 (fulfilment): when the underlying call of a requestInfo that is the
\* table's entry for its identifier and is not cancelled fulfils with a value,
\* the entry leaves the table, the wrapper is fulfilled with that value, and
\* getActiveCount() is one less.
C13_FulfilmentForwarded ==
    \A e \in Pending(State) :
        (IsCurrent(State, e) /\ ~requestInfos[e].isCancelled) =>
            LET M == onFulfilled(State, e)
            IN /\ ~isActive(M, requestInfos[e].requestId)
               /\ M.requestInfos[e].wrapperPromise
                      = [state |-> "fulfilled", value |-> Result(e)]
               /\ getActiveCount(M) = getActiveCount(State) - 1

\* C13: two requests are tracked, and the underlying call of one fulfils.
C13_Witness ==
    /\ getActiveCount(State) = 2
    /\ \E e \in Pending(State) :
        /\ IsCurrent(State, e)
        /\ requestInfos[e].wrapperPromise.state = "pending"
        /\ getActiveCount(onFulfilled(State, e)) = 1
        /\ onFulfilled(State, e).requestInfos[e].wrapperPromise.state = "fulfilled"

\* C14 (transport failure): when the underlying call of a requestInfo fails
\* with an error, and the requestInfo is the table's entry and not cancelled,
\* the entry leaves the table and the wrapper is rejected with that error;
\* when it is not the table's entry any more, the table, every wrapper and
\* every other requestInfo stay as they are.
C14_FailureForwardedOrDropped ==
    \A e \in Pending(State) :
        LET M == onError(State, e)
        IN /\ (IsCurrent(State, e) /\ ~requestInfos[e].isCancelled) =>
                /\ ~isActive(M, requestInfos[e].requestId)
                /\ M.requestInfos[e].wrapperPromise
                       = [state |-> "rejected", value |-> Failure(e)]
                /\ getActiveCount(M) = getActiveCount(State) - 1
           /\ ~IsCurrent(State, e) =>
                /\ M.activeRequests = activeRequests
                /\ M.controllers = controllers
                /\ M.requestInfos = [requestInfos EXCEPT ![e].promise = "rejected"]

\* C14: the underlying calls of a tracked request and of one that was dropped
\* from the table without being cancelled are both still to deliver.
C14_Witness ==
    \E e, f \in Pending(State) :
        /\ IsCurrent(State, e)
        /\ ~IsCurrent(State, f)
        /\ ~requestInfos[f].isCancelled
        /\ onError(State, e).requestInfos[e].wrapperPromise.state = "rejected"
        /\ onError(State, f).requestInfos[f].wrapperPromise.state = "pending"

\* The wrapper of requestInfo e in M is settled with the outcome of e's own underlying call.
OwnOutcome(M, e) ==
    /\ M.requestInfos[e].wrapperPromise.state # "pending"
    /\ M.requestInfos[e].wrapperPromise.value \in {Result(e), Failure(e), RawValue(e)}

\* Requests under identifiers other than requestId that M tracks are tracked
\* in M1 as they were, and their wrappers still settle with their own outcomes.
OthersUntouched(M, M1, requestId) ==
    \A B \in DOMAIN M.requestInfos :
        (IsCurrent(M, B) /\ M.requestInfos[B].requestId # requestId) =>
            /\ IsCurrent(M1, B)
            /\ M1.requestInfos[B] = M.requestInfos[B]
            /\ \A D \in Deliveries(M1, B) : OwnOutcome(D, B)

\* C15 (no interference between identifiers): a submit, a cancel or a
\* completion for one identifier leaves the entry tracked under another
\* identifier in the table and as it was (not cancelled, its cancel handle not
\* called, its wrapper not settled), and that entry's wrapper still settles
\* with the outcome of its own underlying call afterwards.
C15_NoInterference ==
    /\ \A c \in Calls :
         OthersUntouched(State, Submitted(State, c[1], c[2], c[3]),
                         IdentifierOf(c[1], c[2], c[3]))
    /\ \A requestId \in CancelIds(State) :
         OthersUntouched(State, cancel(State, requestId).M, requestId)
    /\ \A e \in DOMAIN requestInfos :
         \A D \in Deliveries(State, e) :
            OthersUntouched(State, D, requestInfos[e].requestId)

\* C15: a request under one identifier was cancelled while a request under
\* another identifier stays tracked, not cancelled and not settled.
C15_Witness ==
    \E A, B \in DOMAIN requestInfos :
        /\ requestInfos[A].requestId = Prefix \o <<"a">>
        /\ requestInfos[B].requestId = Prefix \o <<"b">>
        /\ requestInfos[A].isCancelled
        /\ ~IsCurrent(State, A)
        /\ IsCurrent(State, B)
        /\ ~requestInfos[B].isCancelled
        /\ requestInfos[B].cancelTokenCalls = 0
        /\ requestInfos[B].wrapperPromise.state = "pending"

\* C21 (generated identifiers), as the specification states it: the identifier
\* a submit with noCancel gets is the identifier of no tracked entry, of an
\* earlier submit with noCancel or of any other, so that its registration
\* adds an entry and leaves every tracked entry in the table.
C21_GeneratedIdentifiersFresh ==
    \A c \in Calls :
        c[1].options.noCancel =>
            LET M == Submitted(State, c[1], c[2], c[3])
            IN /\ ~isActive(State, IdentifierOf(c[1], c[2], c[3]))
               /\ getActiveCount(M) = getActiveCount(State) + 1
               /\ \A e \in DOMAIN requestInfos : IsCurrent(State, e) => IsCurrent(M, e)

\* C25 (message of the cancellation error), as the specification states it: the
\* error a wrapper is rejected with when its entry is cancelled by cancel(),
\* cancelAll() or a superseding submit has the message 'Request was
\* cancelled', whatever the identifier.
C25_CancellationMessage ==
    \A e \in DOMAIN requestInfos :
        IsCurrent(State, e) =>
            \A M \in Cancellations(e) :
                M.requestInfos[e].wrapperPromise.state = "rejected" =>
                    M.requestInfos[e].wrapperPromise.value
                        = CancelError(<<"Request was cancelled">>)

\* C27 (cancel, then register): always, in a submit the entry tracked under the
\* identifier is cancelled and removed before the new requestInfo is made, and
\* the registration leaves it as the cancel left it; when the submit returns,
\* the new requestInfo is the table's entry, not cancelled, its wrapper pending.
C27_CancelBeforeRegister ==
  [](\A c \in Calls :
        LET requestId == IdentifierOf(c[1], c[2], c[3])
            options == OptionsOf(State, c[1])
        IN \A M3 \in {AfterCancel(ControllerFor(Before(State, c[1]), options), requestId, options)} :
           \A M \in {Submitted(State, c[1], c[2], c[3])} :
              /\ DOMAIN M3.requestInfos = DOMAIN requestInfos
              /\ (~options.noCancel /\ isActive(State, requestId)) =>
                   /\ ~isActive(M3, requestId)
                   /\ M3.requestInfos[activeRequests[requestId]].isCancelled
              /\ MapKeep(M.requestInfos, DOMAIN requestInfos) = M3.requestInfos
              /\ isActive(M, requestId)
              /\ \A new \in {M.activeRequests[requestId]} :
                    /\ new \notin DOMAIN requestInfos
                    /\ ~M.requestInfos[new].isCancelled
                    /\ M.requestInfos[new].wrapperPromise.state = "pending"
                    /\ M.requestInfos[new].settleCalls = 0)

\* C27: a request with a cancel function was superseded by one that is tracked,
\* not cancelled, while verbose was true: the first is rejected, the second pending.
C27_Witness ==
    \E e, f \in DOMAIN requestInfos :
        /\ e # f
        /\ requestInfos[e].requestId = requestInfos[f].requestId
        /\ requestInfos[e].isCancelled
        /\ requestInfos[e].cancelToken = "function"
        /\ requestInfos[e].wrapperPromise.state = "rejected"
        /\ IsCurrent(State, f)
        /\ ~requestInfos[f].isCancelled
        /\ requestInfos[f].wrapperPromise.state = "pending"

\* C28 (cancel, then launch), as the specification states it: in a submit whose
\* underlying call the manager starts (a function or a URL string) the entry
\* tracked under the identifier is already cancelled and out of the table at
\* the moment the function, or fetch, is invoked.
C28_CancelBeforeLaunch ==
    \A c \in Calls :
        LET requestId == IdentifierOf(c[1], c[2], c[3])
            options == OptionsOf(State, c[1])
            M == AtLaunch(Before(State, c[1]), options)
        IN (c[1].requestPromise \in Launched /\ ~options.noCancel /\ isActive(State, requestId)) =>
              /\ ~isActive(M, requestId)
              /\ M.requestInfos[activeRequests[requestId]].isCancelled

\* C29 (tracked entries are pending): every entry of the table is not
\* cancelled, and neither resolve nor reject of its wrapper has been called.
C29_TrackedArePending ==
    \A requestId \in DOMAIN activeRequests :
        LET e == activeRequests[requestId]
        IN /\ e \in DOMAIN requestInfos
           /\ requestInfos[e].requestId = requestId
           /\ ~requestInfos[e].isCancelled
           /\ requestInfos[e].wrapperPromise.state = "pending"
           /\ requestInfos[e].settleCalls = 0

\* C29: one request is tracked and pending beside one that was cancelled and
\* rejected and has left the table.
C29_Witness ==
    \E e, f \in DOMAIN requestInfos :
        /\ IsCurrent(State, e)
        /\ requestInfos[e].wrapperPromise.state = "pending"
        /\ ~IsCurrent(State, f)
        /\ requestInfos[f].isCancelled
        /\ requestInfos[f].wrapperPromise.state = "rejected"
        /\ requestInfos[f].settleCalls = 1

\* The requestInfo e of M is cancelled, or its wrapper is settled.
Terminal(M, e) ==
    M.requestInfos[e].isCancelled \/ M.requestInfos[e].wrapperPromise.state # "pending"

\* The cancelled mark and the wrapper of requestInfo e are in M1 as they are in M.
SameOutcome(M, M1, e) ==
    /\ M1.requestInfos[e].isCancelled = M.requestInfos[e].isCancelled
    /\ M1.requestInfos[e].wrapperPromise = M.requestInfos[e].wrapperPromise
    /\ M1.requestInfos[e].settleCalls = M.requestInfos[e].settleCalls

\* C30 (terminal states): the cancelled mark of a requestInfo never goes back
\* to false, and once a requestInfo is cancelled or its wrapper settled, no
\* turn changes its mark or its wrapper: neither a turn after which the
\* requestInfo is still awaited, nor the late delivery of its underlying call.
C30_TerminalStates ==
    /\ [][\A e \in DOMAIN requestInfos \cap DOMAIN requestInfos' :
            /\ requestInfos[e].isCancelled => requestInfos'[e].isCancelled
            /\ Terminal(State, e) => SameOutcome(State, State', e)]_vars
    /\ [](\A e \in DOMAIN requestInfos :
            Terminal(State, e) =>
                \A D \in Deliveries(State, e) : SameOutcome(State, D, e))

\* C30: a requestInfo cancelled while verbose was false (its wrapper pending)
\* and one cancelled while it was true (its wrapper rejected) both await the
\* late delivery of their underlying calls.
C30_Witness ==
    \E e, f \in DOMAIN requestInfos :
        /\ requestInfos[e].isCancelled /\ requestInfos[f].isCancelled
        /\ requestInfos[e].wrapperPromise.state = "pending"
        /\ requestInfos[f].wrapperPromise.state = "rejected"
        /\ Awaited(State, e) /\ Awaited(State, f)
        /\ f \in Timers(State)

(***************************************************************************)
(* The manager's controller.  In the behaviours of SlotSpec the caller     *)
(* also calls getAbortController() and getSignal(), and keeps what the     *)
(* last of these calls returned.                                           *)
(***************************************************************************)

\* The caller calls getAbortController(), or getSignal(), which returns the
\* signal of what getAbortController() returns, and keeps the controller.
Obtain(M) ==
    LET got == getAbortController(M)
    IN [got.M EXCEPT !.obtained = got.ret]

\* getAbortController() / getSignal()
GetAbortController == Becomes(Obtain(State))

SlotNext ==
    \/ Next
    \/ GetAbortController

SlotSpec == Init /\ [][SlotNext]_vars

\* C16 (the manager's controller), as the specification states it: whatever
\* the manager did since the caller's last getAbortController() or
\* getSignal(), the next getAbortController() returns the controller that
\* call returned if its signal is not aborted and a new one if it is, and the
\* signal of the controller returned is not aborted.
C16_ControllerSlot ==
    LET got == getAbortController(State)
    IN /\ ~got.M.controllers[got.ret]
       /\ obtained # 0 =>
            IF controllers[obtained] THEN got.ret \notin DOMAIN controllers
            ELSE got.ret = obtained

\* The calls of request() without an abortController option.
DefaultCalls ==
    {c \in Calls : c[1].op = "request" /\ c[1].options.abortController = "none"}

\* C17 (signal obtained before the request), as the specification states it:
\* the request() without an abortController option that follows a
\* getAbortController() or getSignal() registers the controller that call
\* returned, and cancelling the request aborts its signal.
C17_ObtainedControllerUsed ==
    \A c \in DefaultCalls :
        LET M1 == Obtain(State)
            M2 == Submitted(M1, c[1], c[2], c[3])
            requestId == IdentifierOf(c[1], c[2], c[3])
            e == M2.activeRequests[requestId]
        IN /\ M2.requestInfos[e].abortController = M1.obtained
           /\ cancel(M2, requestId).M.controllers[M1.obtained]

(***************************************************************************)
(* The identifiers.  In the behaviours of IdSpec the caller makes requests *)
(* with URLs and requestKeys of every kind #_generateRequestId tells       *)
(* apart, and the underlying calls fulfil.                                 *)
(***************************************************************************)

\* The options of a request() with a requestKey and nothing else.
KeyOptions(requestKey) ==
    [requestKey |-> requestKey, noCancel |-> FALSE, abortController |-> 0,
     cancelToken |-> "null"]

\* URLs with the host and path "a" that differ in scheme, query string and fragment.
UrlVariants ==
    {Str(scheme \o <<"a">> \o query \o fragment) :
        scheme \in {<<>>, <<"s", ":", "/", "/">>},
        query \in {<<>>, <<"?", "q">>, <<"?", "r", "=", "t", ":", "/", "/", "c">>},
        fragment \in {<<>>, <<"#", "h">>}}

\* URLs of other hosts and paths, and no URL.
OtherUrls == {Str(<<"c", "?", "q">>), Str(<<>>), Undefined}

\* Explicit keys: strings, numbers, and functions that return them.
ExplicitKeys == {Str(<<"b">>), Str(<<>>), Num(10), Fn(Str(<<"b">>)), Fn(Num(7))}

\* requestKey functions that give no key: one that throws, and ones that
\* return null and undefined.
FailingKeys == {FnThrows, Fn(Null), Fn(Undefined)}

\* request(url, requestPromise, {requestKey}) with a pending promise.
KeyedRequest(M, url, requestKey) ==
    request(M, url, "promise", KeyOptions(requestKey), 7, <<"x">>)

IdRequest ==
    /\ HasRoom(State)
    /\ \E url \in UrlVariants \cup OtherUrls,
          requestKey \in {Undefined, Null} \cup ExplicitKeys \cup FailingKeys :
            Becomes(KeyedRequest(State, url, requestKey))

IdNext ==
    \/ IdRequest
    \/ Fulfil

IdSpec == Init /\ [][IdNext]_vars

\* The identifier of request(url, requestPromise, {requestKey}).
KeyedIdentifier(url, requestKey) ==
    GenerateRequestId(url, requestKey, FALSE, 7, <<"x">>)

\* In M, a request with the first url and requestKey followed by a request with
\* the second leaves the entry of the first cancelled and the second tracked
\* in its place.
Supersedes(M, first, second) ==
    LET id1 == KeyedIdentifier(first.url, first.requestKey)
        id2 == KeyedIdentifier(second.url, second.requestKey)
        M1 == KeyedRequest(M, first.url, first.requestKey)
        e == M1.activeRequests[id1]
        M2 == KeyedRequest(M1, second.url, second.requestKey)
    IN /\ id1 = id2
       /\ M2.requestInfos[e].isCancelled
       /\ M2.activeRequests[id2] # e
       /\ getActiveCount(M2) = getActiveCount(M1)

\* C18 (identifier from the URL), as the specification states it: two URLs that
\* differ only in scheme, query string or fragment give the same identifier
\* when no requestKey and no noCancel is given, so that a request with one
\* supersedes a request with the other.
C18_UrlIdentity ==
    \A u1, u2 \in UrlVariants :
        Supersedes(State, [url |-> u1, requestKey |-> Undefined],
                          [url |-> u2, requestKey |-> Undefined])

\* C19 (identifier from an explicit key): with a requestKey that is not null
\* (a string, a number, or a function that returns one) and without noCancel,
\* the identifier is made of the key alone, whatever the URL, the clock and
\* the random generator give; two requests with the same key and different
\* URLs get the same identifier and the second supersedes the first.
C19_KeyIdentity ==
    \A key \in ExplicitKeys :
        LET value == IF key.type = "function" THEN key.returns ELSE key
        IN /\ \A url \in OtherUrls, now \in {7, 8}, rnd \in Rands :
                GenerateRequestId(url, key, FALSE, now, rnd) = Prefix \o String(value)
           /\ \A u1, u2 \in OtherUrls :
                Supersedes(State, [url |-> u1, requestKey |-> key],
                                  [url |-> u2, requestKey |-> key])

\* C19: a request under the identifier of the key 10 was superseded by another.
C19_Witness ==
    \E e, f \in DOMAIN requestInfos :
        /\ e # f
        /\ requestInfos[e].requestId = Prefix \o String(Num(10))
        /\ requestInfos[f].requestId = Prefix \o String(Num(10))
        /\ requestInfos[e].isCancelled
        /\ Aborted(State, e)
        /\ IsCurrent(State, f)

\* C20 (key function that fails): with a requestKey function that throws, or
\* returns null or undefined, the identifier is the one made from the URL as
\* when no requestKey is given, and the request leaves the manager in the
\* state it leaves it in when no requestKey is given.
C20_KeyFunctionFailure ==
    \A key \in FailingKeys, url \in UrlVariants \cup OtherUrls :
        /\ KeyedIdentifier(url, key) = KeyedIdentifier(url, Undefined)
        /\ KeyedIdentifier(url, key) = Prefix \o CleanUrl(url)
        /\ KeyedRequest(State, url, key) = KeyedRequest(State, url, Undefined)

\* C20: requests are tracked under the identifiers of the URLs "a" and "c":
\* none of the keys gives these.
C20_Witness ==
    \E e, f \in DOMAIN requestInfos :
        /\ requestInfos[e].requestId = Prefix \o CleanUrl(Str(<<"a">>))
        /\ requestInfos[f].requestId = Prefix \o CleanUrl(Str(<<"c", "?", "q">>))
        /\ IsCurrent(State, e)
        /\ IsCurrent(State, f)
        /\ e \in Pending(State)
        /\ requestInfos[e].wrapperPromise.state = "pending"

(***************************************************************************)
(* Suppliers of the underlying call.  The behaviours of AjaxSpec are those *)
(* of a caller that submits through ajax() and through request() with a    *)
(* function, adds abort listeners to the signals of its own controllers    *)
(* and cancels; the underlying calls fulfil and the timers fire.           *)
(***************************************************************************)

\* The listeners a caller adds to one signal.
MaxListeners == 2

AjaxCall(ajaxFunction, url, requestKey, noCancel, ac, token) ==
    [op |-> "ajax", url |-> url, ajaxFunction |-> ajaxFunction,
     options |-> [requestKey |-> requestKey, noCancel |-> noCancel,
                  abortController |-> ac, cancelToken |-> token]]

\* The calls of ajax(): with a function that returns a promise with an abort
\* method (a jqXHR), one that returns an object with an xhr whose abort throws
\* and no then, one that throws, and with a string instead of a function.
AjaxCalls ==
    { AjaxCall(Fn(Req(TRUE, "function", "none")), Str(<<"a">>), Undefined, FALSE, "none", "null"),
      AjaxCall(Fn(Req(FALSE, "value", "throwing")), Str(<<"a", "?", "q">>), Undefined, FALSE,
               "new", "function"),
      AjaxCall(FnThrows, Str(<<"b">>), Undefined, FALSE, "none", "null"),
      AjaxCall(Str(<<"f">>), Str(<<"b">>), Undefined, FALSE, "new", "null") }

\* The submission s with options for the underlying call beside the manager's:
\* a method, and a signal of the caller's own.
ForeignSignal == -50
WithTransport(s) ==
    [s EXCEPT !.options =
        [k \in DOMAIN s.options \cup {"method", "signal"} |->
            CASE k = "method" -> <<"POST">>
              [] k = "signal" -> ForeignSignal
              [] OTHER -> s.options[k]]]

\* The calls of request() with a function for requestPromise.
SupplierSubmissions ==
    { Submission("request", Str(<<"b">>), "function", Undefined, FALSE, "none", "null"),
      Submission("request", Str(<<"a">>), "functionThrows", Undefined, FALSE, "none", "null"),
      WithTransport(Submission("request", Str(<<"b">>), "function", Str(<<"b">>), FALSE,
                               "none", "null")) }

\* What the ajax() call s gives in M.
Ajaxed(M, s) ==
    ajax(Before(M, s), s.ajaxFunction, s.url, OptionsOf(M, s),
         CHOOSE now \in Times : TRUE, CHOOSE rnd \in Rands : TRUE)

\* ajax(ajaxFunction, url, options)
Ajax == \E s \in AjaxCalls : HasRoom(State) /\ Becomes(Ajaxed(State, s).M)

\* request(url, requestPromise, options) with a function
SupplierRequest == \E s \in SupplierSubmissions : Submit(s)

\* What the caller passes for abortMethod, and for signal: nothing, or the
\* signal of a controller it made.
AbortMethods == {"function", "throwing", "value"}
CallerSignals(M) == {0} \cup {c \in DOMAIN M.controllers : c < 0}

\* addAbortListener(abortMethod, signal)
AddAbortListener ==
    \E abortMethod \in AbortMethods, signal \in CallerSignals(State) :
        /\ Len(ListenersOf(State, signal)) < MaxListeners
        /\ Becomes(addAbortListener(State, abortMethod, signal).M)

AjaxNext ==
    \/ Ajax
    \/ SupplierRequest
    \/ AddAbortListener
    \/ Cancel
    \/ Fulfil
    \/ Timeout

AjaxSpec == Init /\ [][AjaxNext]_vars

\* C22 (ajax without a function), as the specification states it: ajax() with
\* an ajaxFunction that is no function raises at once an error whose message
\* contains 'ajaxFunction must be a function', returns no promise and leaves
\* the table and the manager's controller as they were.
C22_AjaxMisuse ==
    \A s \in AjaxCalls :
        s.ajaxFunction.type # "function" =>
            LET r == Ajaxed(State, s)
            IN /\ r.raised
               /\ r.ret.promise = "none"
               /\ r.M.activeRequests = activeRequests
               /\ r.M.abortController = abortController
               /\ Includes(r.error[2], <<"ajaxFunction", " ", "must", " ", "be", " ",
                                         "a", " ", "function">>)

\* C23 (a supplier throws), as the specification states it: when the function
\* given to request(), or the ajaxFunction, throws as the submit calls it, the
\* submit raises no error and returns a promise rejected with what was thrown.
C23_SupplierFailure ==
    /\ \A s \in AjaxCalls :
          (s.ajaxFunction.type = "function" /\ s.ajaxFunction.throws) =>
              LET r == Ajaxed(State, s)
              IN ~r.raised /\ r.ret = [promise |-> "rejected", value |-> Thrown]
    /\ \A s \in SupplierSubmissions :
          LaunchRaises(s.requestPromise) => ~requestRaises(s.requestPromise)

\* C24 (abort listeners): the abortMethod of a listener is not called while
\* its signal is not aborted, and never if it is no function; the abort of the
\* signal of a tracked request calls each abortMethod that is a function once
\* and raises no error, whatever the abortMethod throws; addAbortListener
\* raises no error, calls no abortMethod, leaves the manager and the listeners
\* there are as they were, and without a signal changes nothing.
C24_AbortListener ==
    /\ \A c \in DOMAIN listeners : \A i \in DOMAIN listeners[c] :
          /\ ~controllers[c] => listeners[c][i].calls = 0
          /\ listeners[c][i].abortMethod \notin Functions => listeners[c][i].calls = 0
          /\ listeners[c][i].calls <= 1
    /\ \A requestId \in DOMAIN activeRequests :
          LET c == requestInfos[activeRequests[requestId]].abortController
              r == cancel(State, requestId)
          IN ~controllers[c] =>
                /\ r.M.controllers[c]
                /\ ~DispatchRaises(State, c)
                /\ ~r.raised
                /\ DOMAIN r.M.listeners = DOMAIN listeners
                /\ \A i \in DOMAIN ListenersOf(State, c) :
                      /\ r.M.listeners[c][i].abortMethod = listeners[c][i].abortMethod
                      /\ r.M.listeners[c][i].calls
                            = IF listeners[c][i].abortMethod \in Functions THEN 1 ELSE 0
    /\ \A abortMethod \in AbortMethods, signal \in {0} \cup DOMAIN controllers :
          LET r == addAbortListener(State, abortMethod, signal)
          IN /\ ~r.raised
             /\ signal = 0 => r.M = State
             /\ [r.M EXCEPT !.listeners = listeners] = State
             /\ \A c \in DOMAIN listeners :
                   SubSeq(r.M.listeners[c], 1, Len(listeners[c])) = listeners[c]
             /\ signal # 0 =>
                   /\ Len(r.M.listeners[signal]) = Len(ListenersOf(State, signal)) + 1
                   /\ r.M.listeners[signal][Len(r.M.listeners[signal])]
                         = [abortMethod |-> abortMethod, calls |-> 0]

\* C24: two signals were aborted, each with a listener whose abortMethod
\* throws, which was called; one has a listener with a function added after
\* the abort, the other a listener whose abortMethod is no function.
C24_Witness ==
    \E c, d \in DOMAIN listeners :
        /\ controllers[c] /\ controllers[d]
        /\ \E i, k \in DOMAIN listeners[c] :
              /\ listeners[c][i].abortMethod = "throwing" /\ listeners[c][i].calls = 1
              /\ listeners[c][k].abortMethod = "function" /\ listeners[c][k].calls = 0
        /\ \E i, j \in DOMAIN listeners[d] :
              /\ listeners[d][i].abortMethod = "throwing" /\ listeners[d][i].calls = 1
              /\ listeners[d][j].abortMethod = "value"

\* C26 (what ajaxFunction gets), as the specification states it: ajax() calls
\* ajaxFunction with an object holding the url and, as signal, the signal of
\* the controller of the requestInfo it registers.
C26_AjaxFunctionGetsSignal ==
    \A s \in AjaxCalls :
        (s.ajaxFunction.type = "function" /\ ~s.ajaxFunction.throws) =>
            LET r == Ajaxed(State, s)
            IN /\ "url" \in DOMAIN r.received
               /\ r.received["url"] = s.url
               /\ "signal" \in DOMAIN r.received
               /\ r.received["signal"] = r.M.requestInfos[r.ret.of].abortController

(***************************************************************************)
(* Identifiers of different origins.                                       *)
(***************************************************************************)

\* The submission gives a requestKey, and no noCancel.
Keyed(s) == ~s.options.noCancel /\ ~IsNullish(s.options.requestKey)

\* The submission gives neither a requestKey nor noCancel: the URL is the key.
Unkeyed(s) == ~s.options.noCancel /\ IsNullish(s.options.requestKey)

\* C34 (keys and URLs apart), as the specification states it: the identifier of
\* a submit with a requestKey differs from the identifier of every submit
\* without one, so that neither supersedes the other: after one and then the
\* other, the entry of the first is tracked and not cancelled.
C34_KeysApartFromUrls ==
    \A c, d \in Calls :
        ((Keyed(c[1]) /\ Unkeyed(d[1])) \/ (Unkeyed(c[1]) /\ Keyed(d[1]))) =>
            /\ IdentifierOf(c[1], c[2], c[3]) # IdentifierOf(d[1], d[2], d[3])
            /\ \A M1 \in {Submitted(State, c[1], c[2], c[3])} :
               \A M2 \in {Submitted(M1, d[1], d[2], d[3])} :
                  \A e \in {M1.activeRequests[IdentifierOf(c[1], c[2], c[3])]} :
                     IsCurrent(M2, e) /\ ~M2.requestInfos[e].isCancelled

\* C39 (entries with noCancel outlive later submits), as the specification
\* states it: no submit, with or without noCancel, whatever its URL and
\* requestKey, cancels the tracked entry of a submit with noCancel or takes it
\* out of the table.
C39_SuppressedOutliveSubmits ==
    \A e \in DOMAIN requestInfos :
        (requestInfos[e].requestId \in Generated /\ IsCurrent(State, e)) =>
            \A c \in Calls :
                \A M \in {Submitted(State, c[1], c[2], c[3])} :
                    /\ IsCurrent(M, e)
                    /\ ~M.requestInfos[e].isCancelled
                    /\ ~Aborted(M, e)

(***************************************************************************)
(* Suppliers: what they are given, and what their failure leaves.          *)
(***************************************************************************)

\* C33 (options forwarded to the supplier): the options request() calls a
\* function requestPromise with hold every key of the caller's options but
\* abortController, cancelToken, requestKey and noCancel, with the caller's
\* values, and as signal the signal of the controller of the requestInfo the
\* call registers, also when the caller's options hold a signal.
C33_ForwardedOptions ==
    \A s \in SupplierSubmissions :
        s.requestPromise = "function" =>
            LET requestId == IdentifierOf(s, 7, <<"x">>)
                fetchOptions == LaunchOptions(Before(State, s), OptionsOf(State, s))
            IN \A M \in {Submitted(State, s, 7, <<"x">>)} :
                  /\ DOMAIN fetchOptions
                        = (DOMAIN s.options \ {"abortController", "cancelToken",
                                                "requestKey", "noCancel"}) \cup {"signal"}
                  /\ \A k \in DOMAIN fetchOptions \ {"signal"} : fetchOptions[k] = s.options[k]
                  /\ isActive(M, requestId)
                  /\ fetchOptions["signal"]
                        = M.requestInfos[M.activeRequests[requestId]].abortController

\* C33: a request made with a function is tracked, its controller the one
\* the manager made for it.
C33_Witness ==
    \E e \in DOMAIN requestInfos :
        /\ IsCurrent(State, e)
        /\ requestInfos[e].requestId = Prefix \o <<"b">>
        /\ requestInfos[e].promise = "pending"
        /\ requestInfos[e].abortController = abortController
        /\ ~Aborted(State, e)

\* The table, the requestInfos and their controllers are in M as they are now.
TableUntouched(M) ==
    /\ M.activeRequests = activeRequests
    /\ M.requestInfos = requestInfos
    /\ \A e \in DOMAIN requestInfos :
          LET c == requestInfos[e].abortController
          IN c \in DOMAIN M.controllers /\ M.controllers[c] = controllers[c]

\* C37 (a supplier that throws leaves the table alone): when the function
\* given to request(), or the ajaxFunction, throws as it is called, the call
\* leaves the table as it was: nothing is registered, and the entry tracked
\* under its identifier stays, not cancelled, its signal as it was.
C37_ThrowingSupplierLeavesTable ==
    /\ \A s \in SupplierSubmissions :
          LaunchRaises(s.requestPromise) =>
              TableUntouched(Submitted(State, s, 7, <<"x">>))
    /\ \A s \in AjaxCalls :
          (s.ajaxFunction.type = "function" /\ s.ajaxFunction.throws) =>
              TableUntouched(Ajaxed(State, s).M)

\* C37: request_a is tracked, not cancelled and its signal not aborted, and
\* the manager holds a controller that no requestInfo has, as a call leaves it
\* whose function threw.
C37_Witness ==
    /\ isActive(State, Prefix \o <<"a">>)
    /\ ~Aborted(State, activeRequests[Prefix \o <<"a">>])
    /\ abortController # 0
    /\ \A e \in DOMAIN requestInfos : requestInfos[e].abortController # abortController

(***************************************************************************)
(* A requestPromise without a then method.                                 *)
(***************************************************************************)

\* C32 (values that are no promises): always, a submit with a requestPromise
\* that has no then returns with the entry tracked, its wrapper pending and a
\* timer set; when the timer fires, if the requestInfo is then the table's
\* entry and not cancelled, the entry is removed and the wrapper fulfilled with
\* the value, and otherwise the wrapper and the table stay as they are.
C32_ValueSettledByTimer ==
  [](/\ \A c \in Calls :
          c[1].requestPromise = "value" =>
              \A M \in {Submitted(State, c[1], c[2], c[3])} :
                 /\ isActive(M, IdentifierOf(c[1], c[2], c[3]))
                 /\ \A new \in {M.activeRequests[IdentifierOf(c[1], c[2], c[3])]} :
                       /\ new \notin DOMAIN requestInfos
                       /\ new \in Timers(M)
                       /\ M.requestInfos[new].wrapperPromise.state = "pending"
                       /\ M.requestInfos[new].settleCalls = 0
     /\ \A e \in Timers(State) :
          \A D \in {onTimeout(State, e)} :
             IF IsCurrent(State, e) /\ ~requestInfos[e].isCancelled
             THEN /\ D.requestInfos[e].wrapperPromise
                        = [state |-> "fulfilled", value |-> RawValue(e)]
                  /\ D.requestInfos[e].settleCalls = 1
                  /\ D.activeRequests = MapDelete(activeRequests, requestInfos[e].requestId)
             ELSE /\ D.requestInfos[e].wrapperPromise = requestInfos[e].wrapperPromise
                  /\ D.requestInfos[e].wrapperPromise.state # "fulfilled"
                  /\ D.requestInfos[e].settleCalls = requestInfos[e].settleCalls
                  /\ D.activeRequests = activeRequests)

\* C32: two requests made with values await their timers: one is tracked, the
\* other was superseded or cancelled while verbose was false and is pending.
C32_Witness ==
    \E e, f \in Timers(State) :
        /\ IsCurrent(State, e)
        /\ ~IsCurrent(State, f)
        /\ requestInfos[f].isCancelled
        /\ requestInfos[f].wrapperPromise.state = "pending"

(***************************************************************************)
(* Controllers the caller takes from the manager.  In the behaviours of    *)
(* ShareSpec each submit passes the controller getAbortController()        *)
(* returns as the call is made, or none.                                   *)
(***************************************************************************)

SharedSubmissions ==
    { Submission("request", Str(<<"a">>), "promise", Undefined, FALSE, "manager", "function"),
      Submission("request", Str(<<"b">>), "promise", Undefined, FALSE, "manager", "null"),
      Submission("request", Str(<<"a">>), "promise", Undefined, FALSE, "none", "null") }

\* request(url, requestPromise, {abortController: manager.getAbortController()}),
\* or request(url, requestPromise)
SharedRequest == \E s \in SharedSubmissions : Submit(s)

ShareNext ==
    \/ SharedRequest
    \/ Cancel
    \/ Fulfil

ShareSpec == Init /\ [][ShareNext]_vars

\* C35 (signals of other identifiers), as the specification states it: neither
\* cancel(a) nor a submit under a aborts the signal of the controller of an
\* entry tracked under another identifier b.
C35_SignalIsolation ==
    \A b \in DOMAIN activeRequests :
        ~Aborted(State, activeRequests[b]) =>
            /\ \A a \in DOMAIN activeRequests \ {b} :
                  ~Aborted(cancel(State, a).M, activeRequests[b])
            /\ \A s \in SharedSubmissions :
                  IdentifierOf(s, 7, <<"x">>) # b =>
                      ~Aborted(Submitted(State, s, 7, <<"x">>), activeRequests[b])

\* C36 (the new entry's signal), as the specification states it: a submit given
\* no controller, or one whose signal is not aborted, returns with the signal
\* of the controller of the entry it registered not aborted.
C36_NewSignalNotAborted ==
    \A s \in SharedSubmissions :
        \A M \in {Submitted(State, s, 7, <<"x">>)} :
            (ControllerOf(State, s) = 0 \/ ~Before(State, s).controllers[ControllerOf(State, s)]) =>
                ~Aborted(M, M.activeRequests[IdentifierOf(s, 7, <<"x">>)])

(***************************************************************************)
(* Controllers the caller aborts.  In the behaviours of AbortSpec the      *)
(* caller makes requests, calls abort() of the controller of a tracked     *)
(* request, and cancels; the underlying calls fail.                        *)
(***************************************************************************)

\* controller.abort(), called by the caller on the controller of a tracked request.
CallerAbort ==
    \E requestId \in DOMAIN activeRequests :
        /\ ~Aborted(State, activeRequests[requestId])
        /\ Becomes(controllerAbort(State, requestInfos[activeRequests[requestId]].abortController))

AbortNext ==
    \/ Request
    \/ CallerAbort
    \/ Cancel
    \/ Fail

AbortSpec == Init /\ [][AbortNext]_vars

\* C40 (abort by the caller): abort() of the controller of a tracked request,
\* called by the caller, leaves the table and the requestInfo as they are, the
\* entry tracked and not cancelled; and when the underlying call of a tracked
\* request whose signal is aborted fails, the entry is removed and the wrapper
\* rejected with the error of the call, whatever verbose is.
C40_CallerAbort ==
    \A requestId \in DOMAIN activeRequests :
        \A e \in {activeRequests[requestId]} :
            /\ ~Aborted(State, e) =>
                  \A M \in {controllerAbort(State, requestInfos[e].abortController)} :
                     /\ Aborted(M, e)
                     /\ M.activeRequests = activeRequests
                     /\ M.requestInfos = requestInfos
                     /\ ~M.requestInfos[e].isCancelled
            /\ (Aborted(State, e) /\ e \in Pending(State)) =>
                  \A D \in {onError(State, e)} :
                     /\ ~requestInfos[e].isCancelled
                     /\ ~isActive(D, requestId)
                     /\ D.requestInfos[e].wrapperPromise
                           = [state |-> "rejected", value |-> Failure(e)]
                     /\ D.requestInfos[e].settleCalls = 1

\* C40: with verbose true, a request is tracked and pending whose signal the
\* caller aborted.
C40_Witness ==
    /\ verbose
    /\ \E e \in Pending(State) :
          /\ IsCurrent(State, e)
          /\ Aborted(State, e)
          /\ ~requestInfos[e].isCancelled
          /\ requestInfos[e].verbose

(***************************************************************************)
(* Calls of the manager from inside cancel().  In the behaviours of        *)
(* ReentrantSpec the caller gives the signal of a request an abort         *)
(* listener that makes a new request under the same identifier; the        *)
(* listener runs inside abort(), which cancel() calls.                     *)
(***************************************************************************)

\* The request the caller makes, with a controller and a cancel function of
\* its own, and the request its abort listener makes.
OuterSubmission ==
    Submission("request", Str(<<"a">>), "promise", Undefined, FALSE, "new", "function")
InnerSubmission ==
    Submission("request", Str(<<"a", "?", "q">>), "promise", Undefined, FALSE, "none", "null")

\* The listeners that resubmit which abort() of the controller of requestInfo e will run.
Resubmitters(M, e) ==
    LET c == M.requestInfos[e].abortController
    IN IF c # 0 /\ ~M.controllers[c]
       THEN {i \in DOMAIN ListenersOf(M, c) : ListenersOf(M, c)[i].abortMethod = "resubmit"}
       ELSE {}

Resubmits(M, e) == Resubmitters(M, e) # {}

\* The calls of request() by n listeners, one after the other.
RECURSIVE Resubmitted(_, _)
Resubmitted(M, n) ==
    IF n = 0 THEN M ELSE Resubmitted(Submitted(M, InnerSubmission, 7, <<"x">>), n - 1)

(***************************************************************************)
(* cancel(requestId) with the listeners' calls of request(): M after the   *)
(* call and the value returned.  The listener runs inside abort(), that    *)
(* is after the mark and before the cancel token, the rejection and the    *)
(* delete of the outer call.                                               *)
(***************************************************************************)
cancelReentrant(M, requestId) ==
    IF requestId \notin DOMAIN M.activeRequests THEN [M |-> M, ret |-> FALSE]
    ELSE
    LET e == M.activeRequests[requestId]
        M1 == [M EXCEPT !.requestInfos[e].isCancelled = TRUE]
        \* abort(): the listeners run, and the request() of each one that resubmits
        M2 == Resubmitted(AbortOf(M1, e), Cardinality(Resubmitters(M1, e)))
        M3 == CancelTokenOf(M2, e)
        M4 == IF M3.verbose
              THEN rejectWrapper(M3, e, CancelError(CancelMessage(requestId))) ELSE M3
    IN [M |-> [M4 EXCEPT !.activeRequests = MapDelete(@, requestId)], ret |-> TRUE]

\* request(url, requestPromise, options) by the caller, while no listener
\* that resubmits waits on the signal of the tracked request.
OuterRequest ==
    /\ \A requestId \in DOMAIN activeRequests : ~Resubmits(State, activeRequests[requestId])
    /\ Submit(OuterSubmission)

\* addAbortListener(abortMethod, signal) with a function that resubmits.
AddResubmitListener ==
    \E signal \in CallerSignals(State) \ {0} :
        /\ ~controllers[signal]
        /\ Len(ListenersOf(State, signal)) < MaxListeners
        /\ Becomes(addAbortListener(State, "resubmit", signal).M)

\* cancel(requestId) by the caller
ReentrantCancel ==
    \E requestId \in DOMAIN activeRequests :
        /\ Resubmits(State, activeRequests[requestId]) => HasRoom(State)
        /\ Becomes(cancelReentrant(State, requestId).M)

ReentrantNext ==
    \/ OuterRequest
    \/ AddResubmitListener
    \/ ReentrantCancel
    \/ Fulfil

ReentrantSpec == Init /\ [][ReentrantNext]_vars

\* C38 (requests made from inside cancel), as the specification states it:
\* cancel(id) takes out of the table the entry it marked and no other, so that
\* the entry a listener registered under id while cancel ran is tracked, and
\* not cancelled, when cancel returns; and the cancel handle of the entry is
\* called once.
C38_CancelRemovesOnlyMarked ==
    \A requestId \in DOMAIN activeRequests :
        \A e \in {activeRequests[requestId]} :
        \A M \in {cancelReentrant(State, requestId).M} :
            /\ M.requestInfos[e].isCancelled
            /\ ~IsCurrent(M, e)
            /\ M.requestInfos[e].cancelTokenCalls <= 1
            /\ Resubmits(State, e) =>
                  /\ isActive(M, requestId)
                  /\ ~M.requestInfos[M.activeRequests[requestId]].isCancelled

(***************************************************************************)
(* Progress.  In the behaviours of LiveSpec the caller makes requests,     *)
(* cancels and clears as it likes, and the underlying call of every        *)
(* requestInfo settles in the end: the continuation of a promise that      *)
(* fulfils or fails is a job of the promise queue, the timer of a value a  *)
(* task, and the event loop runs each one that is ready.                   *)
(***************************************************************************)

\* The identities requestInfo objects take.
Identities == 1..MaxRequests

\* The requestInfo with identity e is the table's entry for its identifier.
Tracked(e) == e \in DOMAIN requestInfos /\ IsCurrent(State, e)

\* The underlying call of requestInfo e settles: its continuation or timer runs.
Settles(e) ==
    /\ e \in DOMAIN requestInfos
    /\ \/ e \in Pending(State) /\ Becomes(onFulfilled(State, e))
       \/ e \in Pending(State) /\ Becomes(onError(State, e))
       \/ e \in Timers(State) /\ Becomes(onTimeout(State, e))

LiveNext ==
    \/ Request
    \/ Cancel
    \/ Clear
    \/ \E e \in Identities : Settles(e)

LiveSpec == Init /\ [][LiveNext]_vars /\ \A e \in Identities : WF_vars(Settles(e))

\* No requestInfo is made in the step.
NoSubmit == DOMAIN requestInfos' \subseteq DOMAIN requestInfos

====
